---------------------------- MODULE Spec2Model ----------------------------
(***************************************************************************)
(* A model of the rust-email-client engine: the IMAP session wrapper       *)
(* (src/src/imap/client.rs), the MIME part search (src/src/imap/parser.rs) *)
(* and the mailbox they talk to.                                           *)
(*                                                                         *)
(* Spec        the session operations of ImapClient against a mailbox that *)
(*             also receives new mail                                      *)
(* BodySpec    fetch_body's content resolution over bounded part trees     *)
(* HeaderSpec  the header extraction over bounded header blocks            *)
(* UISpec      the event loop of App::run (src/src/ui/mod.rs) with the     *)
(*             callbacks of main (src/src/main.rs)                         *)
(* BorrowSpec  the same callbacks statement by statement: the RefMut guard *)
(*             each takes on the shared ImapClient and the requests it     *)
(*             sends while it holds it                                     *)
(***************************************************************************)
EXTENDS Integers, Sequences, FiniteSets, TLC

\* Bounds of the model.
MaxUid == 2      \* UIDs the mailbox ever assigns
MaxDate == 2     \* distinct INTERNALDATE instants
MaxCount == 2    \* largest count passed to fetch_inbox
MaxNodes == 4    \* nodes of a parsed part tree
MaxLines == 3    \* lines of a header block
MaxKeys == 3     \* keys handled in one run of the program
MaxLoads == 1    \* times 'm' is pressed
MaxScroll == 1   \* lines the view is scrolled down
MaxTyped == 1    \* characters typed into the Compose fields
MaxChanges == 1  \* changes other clients make to the folder during one run

\* from_read(html.as_bytes(), 80)
WrapWidth == 80

VARIABLES
    mailbox,    \* the INBOX on the server: a set of [uid, date, flagged]
    uidNext,    \* the UID the server gives the next arriving message
    selected,   \* whether the session has a folder selected
    last,       \* the call that has just returned, with its outcome; Blank between calls
    deletedOk,  \* UIDs for which delete_message has returned Ok
    raw,        \* BodySpec: the RFC822 message the server returns
    shown,      \* BodySpec: what fetch_body returned for it
    header_block, \* HeaderSpec: the header block the server returns
    extracted,    \* HeaderSpec: what fetch_inbox and fetch_headers made of it
    app,        \* UISpec: the fields of App
    keylog,     \* UISpec: the key last handled and the calls its handler made,
                \* with the count of keys handled and of folder changes by others
    thread,     \* BorrowSpec: the one thread of the program inside App::run, with
                \* the RefMut guards of the ImapClient that are alive
    terminal    \* UISpec: whether the terminal is in raw mode and on the alternate screen

headerVars == <<header_block, extracted>>
uiVars == <<app, keylog, terminal>>
vars == <<mailbox, uidNext, selected, last, deletedOk, raw, shown, headerVars, uiVars, thread>>

(***************************************************************************)
(* Values                                                                  *)
(***************************************************************************)
None == <<>>
Some(x) == <<x>>
IsSome(o) == o # None
Unwrap(o) == o[1]

Ok(v) == [ok |-> TRUE, val |-> v]
Err(why) == [ok |-> FALSE, val |-> why]

Min(a, b) == IF a <= b THEN a ELSE b

\* a take that keeps the whole sequence
TakeAll(s, n) == s

RECURSIVE Take(_, _)
\* Iterator::take(n) collected: the first n elements, all of them when fewer
Take(s, n) == IF n = 0 \/ s = <<>> THEN <<>> ELSE <<Head(s)>> \o Take(Tail(s), n - 1)

(***************************************************************************)
(* Strings are sequences of one-character strings.                         *)
(***************************************************************************)
UpperChars == <<"A", "B", "C", "D", "E", "F", "G", "H", "I", "J", "K", "L", "M",
                "N", "O", "P", "Q", "R", "S", "T", "U", "V", "W", "X", "Y", "Z">>
LowerChars == <<"a", "b", "c", "d", "e", "f", "g", "h", "i", "j", "k", "l", "m",
                "n", "o", "p", "q", "r", "s", "t", "u", "v", "w", "x", "y", "z">>

\* char::to_lowercase on the model's alphabet
LowerChar(c) ==
    IF \E i \in DOMAIN UpperChars : UpperChars[i] = c
    THEN LowerChars[CHOOSE i \in DOMAIN UpperChars : UpperChars[i] = c]
    ELSE c

\* str::to_lowercase
ToLowercase(s) == [i \in DOMAIN s |-> LowerChar(s[i])]

\* str::starts_with
StartsWith(s, p) == Len(s) >= Len(p) /\ SubSeq(s, 1, Len(p)) = p

\* &s[n..] with n a byte offset (0-based): the rest after the first n characters
From(s, n) == SubSeq(s, n + 1, Len(s))

WhiteSpace == {" ", "\t", "\r", "\n"}

RECURSIVE TrimStart(_)
TrimStart(s) == IF s # <<>> /\ Head(s) \in WhiteSpace THEN TrimStart(Tail(s)) ELSE s

RECURSIVE TrimEnd(_)
TrimEnd(s) ==
    IF s # <<>> /\ s[Len(s)] \in WhiteSpace THEN TrimEnd(SubSeq(s, 1, Len(s) - 1)) ELSE s

\* str::trim
Trim(s) == TrimEnd(TrimStart(s))

\* str::find(char): Some(0-based index of the first occurrence) or None
Find(s, c) ==
    IF \E i \in DOMAIN s : s[i] = c
    THEN Some((CHOOSE i \in DOMAIN s : s[i] = c /\ \A j \in 1..(i - 1) : s[j] # c) - 1)
    ELSE None

\* the first position of "\r\n" in s (1-based), 0 when there is none
FindCRLF(s) ==
    LET at == {i \in 1..(Len(s) - 1) : s[i] = "\r" /\ s[i + 1] = "\n"}
    IN  IF at = {} THEN 0 ELSE CHOOSE i \in at : \A j \in at : i <= j

RECURSIVE SplitCRLF(_)
\* str::split("\r\n") collected: n separators give n + 1 pieces
SplitCRLF(s) ==
    LET i == FindCRLF(s)
    IN  IF i = 0 THEN <<s>>
        ELSE <<SubSeq(s, 1, i - 1)>> \o SplitCRLF(SubSeq(s, i + 2, Len(s)))


(***************************************************************************)
(* Header field extraction (fetch_inbox and fetch_headers)                 *)
(***************************************************************************)
FromTag == <<"F", "r", "o", "m", ":">>
SubjectTag == <<"S", "u", "b", "j", "e", "c", "t", ":">>
DateTag == <<"D", "a", "t", "e", ":">>

\* the From value kept whole, display name and brackets included
WholeValue(after) == after

\* the angle-bracket rule of fetch_inbox applied to the trimmed From value
BareAddress(after) ==
    LET start == Find(after, "<")
    IN  IF IsSome(start)
        THEN LET rest == From(after, Unwrap(start) + 1)
                 end == Find(rest, ">")
             IN  IF IsSome(end) THEN SubSeq(rest, 1, Unwrap(end)) ELSE rest
        ELSE after

RECURSIVE ScanFrom(_, _)
\* the loop over header_text.split("\r\n") of fetch_inbox: a later From line overwrites
ScanFrom(lines, from_line) ==
    IF lines = <<>> THEN from_line
    ELSE LET raw_line == Head(lines)
             lower == ToLowercase(raw_line)
         IN  ScanFrom(Tail(lines),
                      IF StartsWith(lower, ToLowercase(FromTag))
                      THEN BareAddress(Trim(From(raw_line, Len(FromTag))))
                      ELSE from_line)

\* the sender fetch_inbox derives from one header block
SummaryFrom(header_text) == ScanFrom(SplitCRLF(header_text), <<>>)

RECURSIVE ScanHeadersFirstWins(_, _)
\* the loop with a field kept once it has a value: the first line of a field wins
ScanHeadersFirstWins(lines, acc) ==
    IF lines = <<>> THEN acc
    ELSE LET raw_line == Head(lines)
             lower == ToLowercase(raw_line)
         IN  ScanHeadersFirstWins(Tail(lines),
                 IF StartsWith(lower, ToLowercase(FromTag)) /\ acc.from = <<>>
                 THEN [acc EXCEPT !.from = Trim(From(raw_line, Len(FromTag)))]
                 ELSE IF StartsWith(lower, ToLowercase(SubjectTag)) /\ acc.subject = <<>>
                 THEN [acc EXCEPT !.subject = Trim(From(raw_line, Len(SubjectTag)))]
                 ELSE IF StartsWith(lower, ToLowercase(DateTag)) /\ acc.date = <<>>
                 THEN [acc EXCEPT !.date = Trim(From(raw_line, Len(DateTag)))]
                 ELSE acc)

RECURSIVE ScanHeaders(_, _)
\* the loop of fetch_headers: from / subject / date, each overwritten by a later line
ScanHeaders(lines, acc) ==
    IF lines = <<>> THEN acc
    ELSE LET raw_line == Head(lines)
             lower == ToLowercase(raw_line)
         IN  ScanHeaders(Tail(lines),
                 IF StartsWith(lower, ToLowercase(FromTag))
                 THEN [acc EXCEPT !.from = Trim(From(raw_line, Len(FromTag)))]
                 ELSE IF StartsWith(lower, ToLowercase(SubjectTag))
                 THEN [acc EXCEPT !.subject = Trim(From(raw_line, Len(SubjectTag)))]
                 ELSE IF StartsWith(lower, ToLowercase(DateTag))
                 THEN [acc EXCEPT !.date = Trim(From(raw_line, Len(DateTag)))]
                 ELSE acc)

\* a placeholder in every field
UnknownHeaders == [from |-> <<"?">>, subject |-> <<"?">>, date |-> <<"?">>]

\* String::new() three times
EmptyHeaders == [from |-> <<>>, subject |-> <<>>, date |-> <<>>]

\* the triple fetch_headers derives from one header block
DetailHeaders(header_text) == ScanHeaders(SplitCRLF(header_text), EmptyHeaders)

(***************************************************************************)
(* Parsed messages: a part is [ctype, body, subparts]; body is the encoded *)
(* content, which get_body decodes or fails on.                            *)
(***************************************************************************)
Part(ctype, body, subparts) == [ctype |-> ctype, body |-> body, subparts |-> subparts]
Encoded(text) == [decodes |-> TRUE, text |-> text]
Garbled == [decodes |-> FALSE, text |-> <<"%%">>]

\* u8::to_ascii_lowercase over the content types of the model
AsciiLower(s) ==
    CASE s = "Text/Plain" -> "text/plain"
      [] s = "TEXT/HTML" -> "text/html"
      [] OTHER -> s

\* str::eq_ignore_ascii_case
EqIgnoreAsciiCase(a, b) == AsciiLower(a) = AsciiLower(b)

\* ParsedMail::get_body: the decoded content, or the decoding error
GetBody(part) == IF part.body.decodes THEN Ok(part.body.text) ELSE Err("decode")

RECURSIVE FindType(_, _)
RECURSIVE FindInSubparts(_, _)
\* the loop `for sub in &mail.subparts`: the first subpart whose search is a hit
\* returns it, and `?` returns the first error met before a hit
FindInSubparts(subparts, mimetype) ==
    IF subparts = <<>> THEN Ok(None)
    ELSE LET r == FindType(Head(subparts), mimetype)
         IN  IF ~r.ok THEN r
             ELSE IF IsSome(r.val) THEN r
             ELSE FindInSubparts(Tail(subparts), mimetype)

\* find_plain / find_html: this node first, then the subparts in order;
\* Ok(Some(text)), Ok(None) or Err
FindType(mail, mimetype) ==
    IF EqIgnoreAsciiCase(mail.ctype, mimetype)
    THEN LET b == GetBody(mail) IN IF b.ok THEN Ok(Some(b.val)) ELSE b
    ELSE FindInSubparts(mail.subparts, mimetype)

find_plain(mail) == FindType(mail, "text/plain")
find_html(mail) == FindType(mail, "text/html")

(***************************************************************************)
(* Raw messages and fetch_body's content resolution                        *)
(***************************************************************************)
RECURSIVE Concat(_)
Concat(ss) == IF ss = <<>> THEN <<>> ELSE Head(ss) \o Concat(Tail(ss))

RECURSIVE Serialize(_)
\* the bytes of a part on the wire: its Content-Type header, its encoded body, its subparts
Serialize(part) ==
    <<"Content-Type:", part.ctype>> \o part.body.text
        \o Concat([i \in DOMAIN part.subparts |-> Serialize(part.subparts[i])])

\* an RFC822 message as the server returns it: its bytes, and what parse_mail makes of them
RawOf(tree) == [bytes |-> Serialize(tree), parsed |-> Ok(tree)]
MalformedRaw == [bytes |-> <<"Content-Type", "0xFF">>, parsed |-> Err("parse")]

\* mailparse::parse_mail
parse_mail(r) == r.parsed

\* String::from_utf8_lossy: invalid bytes become U+FFFD
Utf8Lossy(bytes) == [i \in DOMAIN bytes |-> IF bytes[i] = "0xFF" THEN "U+FFFD" ELSE bytes[i]]

Tags == {"<p>", "</p>", "<b>", "</b>"}
IsTag(t) == t \in Tags
IsWord(t) == ~IsTag(t)

RECURSIVE WrapWords(_, _, _)
\* words laid out on lines of at most width columns, each line ended by "\n"
WrapWords(words, col, width) ==
    IF words = <<>> THEN IF col = 0 THEN <<>> ELSE <<"\n">>
    ELSE LET w == Head(words)
             need == IF col = 0 THEN Len(w) ELSE col + 1 + Len(w)
         IN  IF col > 0 /\ need > width
             THEN <<"\n">> \o WrapWords(words, 0, width)
             ELSE <<w>> \o WrapWords(Tail(words), need, width)

\* the html handed on unconverted
from_read_verbatim(html, width) == html

\* html2text::from_read(html, width): the text without the markup, wrapped to width
from_read(html, width) == WrapWords(SelectSeq(html, IsWord), 0, width)

\* the resolution with the two searches swapped
ResolveHtmlFirst(r) ==
    LET mail == parse_mail(r)
    IN  IF ~mail.ok THEN mail
        ELSE LET html == find_html(mail.val)
             IN  IF ~html.ok THEN html
                 ELSE IF IsSome(html.val) THEN Ok(from_read(Unwrap(html.val), WrapWidth))
                 ELSE LET txt == find_plain(mail.val)
                      IN  IF ~txt.ok THEN txt
                          ELSE IF IsSome(txt.val) THEN Ok(Unwrap(txt.val))
                          ELSE Ok(Utf8Lossy(r.bytes))

\* the resolution without the last resort: nothing to show when no text part is found
ResolveTextOnly(r) ==
    LET mail == parse_mail(r)
    IN  IF ~mail.ok THEN mail
        ELSE LET txt == find_plain(mail.val)
             IN  IF ~txt.ok THEN txt
                 ELSE IF IsSome(txt.val) THEN Ok(Unwrap(txt.val))
                 ELSE LET html == find_html(mail.val)
                      IN  IF ~html.ok THEN html
                          ELSE IF IsSome(html.val)
                          THEN Ok(from_read(Unwrap(html.val), WrapWidth))
                          ELSE Ok(<<>>)

\* fetch_body from parse_mail on: plain, else converted html, else the raw bytes;
\* every `?` returns the error
ResolveBody(r) ==
    LET mail == parse_mail(r)
    IN  IF ~mail.ok THEN mail
        ELSE LET txt == find_plain(mail.val)
             IN  IF ~txt.ok THEN txt
                 ELSE IF IsSome(txt.val) THEN Ok(Unwrap(txt.val))
                 ELSE LET html == find_html(mail.val)
                      IN  IF ~html.ok THEN html
                          ELSE IF IsSome(html.val)
                          THEN Ok(from_read(Unwrap(html.val), WrapWidth))
                          ELSE Ok(Utf8Lossy(r.bytes))

\* fetch_body on the response to UID FETCH RFC822: the body of the first item, if any
BodyOfResponse(resp) ==
    IF resp = <<>> \/ ~IsSome(resp[1].body) THEN Ok(<<>>)
    ELSE ResolveBody(Unwrap(resp[1].body))

(***************************************************************************)
(* The part trees BodySpec draws from                                      *)
(***************************************************************************)
PlainHi == Part("text/plain", Encoded(<<"hi">>), <<>>)
PlainYo == Part("Text/Plain", Encoded(<<"yo">>), <<>>)
PlainGarbled == Part("text/plain", Garbled, <<>>)
HtmlHo == Part("text/html", Encoded(<<"<p>", "ho", "</p>">>), <<>>)
HtmlGarbled == Part("TEXT/HTML", Garbled, <<>>)
\* an image part: its bytes are not valid UTF-8
Image == Part("image/png", Encoded(<<"png", "0xFF">>), <<>>)
Leaves == {PlainHi, PlainYo, PlainGarbled, HtmlHo, HtmlGarbled, Image}
Multipart(subparts) == Part("multipart/mixed", Encoded(<<>>), subparts)

RECURSIVE TreesOf(_)
RECURSIVE ForestsOf(_)
\* the trees of exactly n nodes
TreesOf(n) ==
    IF n = 1 THEN Leaves \cup {Multipart(<<>>)}
    ELSE {Multipart(f) : f \in ForestsOf(n - 1)}

\* the sequences of trees of m nodes in all
ForestsOf(m) ==
    IF m = 0 THEN {<<>>}
    ELSE UNION {{<<t>> \o f : t \in TreesOf(k), f \in ForestsOf(m - k)} : k \in 1..m}

Messages == {RawOf(t) : t \in UNION {TreesOf(n) : n \in 1..MaxNodes}} \cup {MalformedRaw}


(***************************************************************************)
(* The mailbox: what the server holds and answers                          *)
(***************************************************************************)
Uids == 1..MaxUid
Dates == 1..MaxDate

CRLF == <<"\r", "\n">>

\* the header lines and the RFC822 bytes of the message with a given UID
HeaderLines(uid) ==
    IF uid % 2 = 1
    THEN << <<"F", "r", "o", "m", ":", " ", "J", " ", "<", "j", "@", "x", ">">>,
            <<"S", "u", "b", "j", "e", "c", "t", ":", " ", "s">>,
            <<"D", "a", "t", "e", ":", " ", "d">> >>
    ELSE << <<"f", "r", "o", "m", ":", "k", "@", "x">>,
            <<"S", "U", "B", "J", "E", "C", "T", ":", "R", "e", ":", " ", "s">> >>

MessageRaw(uid) ==
    CASE uid % 4 = 1 -> RawOf(Multipart(<<HtmlHo, PlainHi>>))
      [] uid % 4 = 2 -> MalformedRaw
      [] uid % 4 = 3 -> RawOf(HtmlHo)
      [] OTHER -> RawOf(Image)

\* the server's answer to BODY.PEEK[HEADER.FIELDS (...)]: the lines of the wanted
\* fields, each ended by CRLF, and the empty line that ends a header
HeaderFields(uid, tags) ==
    LET lines == HeaderLines(uid)
        wanted(l) == \E t \in tags : StartsWith(ToLowercase(l), ToLowercase(t))
    IN  Concat([i \in DOMAIN lines |-> IF wanted(lines[i]) THEN lines[i] \o CRLF ELSE <<>>])
            \o CRLF

\* the header blocks the server of the model can send
HeaderBlocks ==
    {HeaderFields(uid, tags) :
        uid \in Uids, tags \in {{FromTag, DateTag}, {FromTag, SubjectTag, DateTag}}}

\* HeaderFields, SummaryFrom and DetailHeaders, tabulated over those blocks
HeaderFieldsOf == [uid \in Uids |-> [tags \in SUBSET {FromTag, SubjectTag, DateTag} |->
                      HeaderFields(uid, tags)]]
SummaryFromOf == [header_bytes \in HeaderBlocks |-> SummaryFrom(Utf8Lossy(header_bytes))]
DetailHeadersOf == [header_bytes \in HeaderBlocks |-> DetailHeaders(Utf8Lossy(header_bytes))]

Present(mb, uid) == \E m \in mb : m.uid = uid

\* the bijections from 1..Cardinality(S) onto S
Orders(S) ==
    {f \in [1..Cardinality(S) -> S] : \A i, j \in 1..Cardinality(S) : f[i] = f[j] => i = j}

Entry(m) == [uid |-> Some(m.uid), date |-> Some(m.date)]

\* the answers to FETCH 1:* (UID INTERNALDATE): one item per message, in any order
Listings(mb) == {[i \in DOMAIN f |-> Entry(f[i])] : f \in Orders(mb)}

\* the answers in which one item comes without its UID or without its INTERNALDATE
PartialListings(mb) ==
    {[l EXCEPT ![i].uid = None] : l \in Listings(mb), i \in 1..Cardinality(mb)}
        \cup {[l EXCEPT ![i].date = None] : l \in Listings(mb), i \in 1..Cardinality(mb)}

\* the answers to a UID FETCH of one message's header fields: one item with the
\* header, alone or after an item without it (a flag update the server slips in);
\* or only an item without it; or no item (always so when the UID names no message)
HeaderResponses(mb, uid, tags) ==
    IF Present(mb, uid)
    THEN {<<[header |-> Some(HeaderFieldsOf[uid][tags])]>>,
          <<[header |-> None], [header |-> Some(HeaderFieldsOf[uid][tags])]>>,
          <<[header |-> None]>>,
          <<>>}
    ELSE {<<>>}

\* the answers to UID FETCH RFC822
BodyResponses(mb, uid) ==
    IF Present(mb, uid)
    THEN {<<[body |-> Some(MessageRaw(uid))]>>, <<[body |-> None]>>, <<>>}
    ELSE {<<>>}

(***************************************************************************)
(* ImapClient                                                              *)
(***************************************************************************)
Req(cmd, uid) == [cmd |-> cmd, uid |-> uid]
Select == Req("SELECT INBOX", 0)
FetchKeys == Req("FETCH 1:* (UID INTERNALDATE)", 0)
FetchFromDate(uid) == Req("UID FETCH BODY.PEEK[HEADER.FIELDS (FROM DATE)]", uid)
FetchFromSubjectDate(uid) == Req("UID FETCH BODY.PEEK[HEADER.FIELDS (FROM SUBJECT DATE)]", uid)
FetchRfc822(uid) == Req("UID FETCH RFC822", uid)
StoreDeleted(uid) == Req("UID STORE +FLAGS (\\Deleted)", uid)
Expunge == Req("EXPUNGE", 0)

\* the record of a call: its arguments, the requests it issued and its outcome
\* (val: the value returned, or the step whose error was returned)
Blank ==
    [op |-> "idle", uid |-> 0, count |-> 0, ok |-> TRUE, reqs |-> <<>>,
     keys |-> <<>>, list |-> <<>>, val |-> <<>>]

RECURSIVE UidDates(_)
\* the loop over all_fetches: an item is kept only when it has both its UID and its date
UidDates(all_fetches) ==
    IF all_fetches = <<>> THEN <<>>
    ELSE LET fetch == Head(all_fetches)
         IN  (IF IsSome(fetch.uid) /\ IsSome(fetch.date)
              THEN <<[uid |-> Unwrap(fetch.uid), date |-> Unwrap(fetch.date)]>>
              ELSE <<>>) \o UidDates(Tail(all_fetches))

Rearrangements(s) ==
    {[i \in DOMAIN s |-> s[f[i]]] : f \in Orders(DOMAIN s)}

\* the same with the comparison the other way round: oldest first
SortUnstableAscending(uid_dates) ==
    {p \in Rearrangements(uid_dates) : \A i, j \in DOMAIN p : i < j => p[i].date <= p[j].date}

\* uid_dates.sort_unstable_by(|a, b| b.1.cmp(&a.1)): the outcomes an unstable sort may
\* give, the rearrangements in which no later element has a greater date
SortUnstableBy(uid_dates) ==
    {p \in Rearrangements(uid_dates) : \A i, j \in DOMAIN p : i < j => p[i].date >= p[j].date}

\* one MailSummary per answer that has any item, its sender left empty
SummariesWithoutSender(uid, date, resp) ==
    IF resp = <<>> THEN <<>> ELSE <<[uid |-> uid, from |-> <<>>, date |-> date]>>

RECURSIVE Summaries(_, _, _)
\* the loop `for fetch in resp.iter()`: one MailSummary per item that has a header
Summaries(uid, date, resp) ==
    IF resp = <<>> THEN <<>>
    ELSE (IF IsSome(Head(resp).header)
          THEN <<[uid |-> uid,
                  from |-> SummaryFromOf[Unwrap(Head(resp).header)],
                  date |-> date]>>
          ELSE <<>>) \o Summaries(uid, date, Tail(resp))

\* every per-UID round trip answered with the one item and its header
PlainTrips(newest_uids) ==
    [i \in DOMAIN newest_uids |->
        Ok(<<[header |-> Some(HeaderFieldsOf[newest_uids[i].uid][{FromTag, DateTag}])]>>)]

\* what the per-UID round trips of one fetch_inbox call may bring: at most one of
\* them is not the plain answer, being an answer without header, an empty answer,
\* or a failed round trip
RoundTrips(mb, newest_uids) ==
    {PlainTrips(newest_uids)}
        \cup UNION {{[PlainTrips(newest_uids) EXCEPT ![i] = Ok(r)] :
                        r \in HeaderResponses(mb, newest_uids[i].uid, {FromTag, DateTag})} :
                    i \in DOMAIN newest_uids}
        \cup {[PlainTrips(newest_uids) EXCEPT ![i] = Err("io")] : i \in DOMAIN newest_uids}

RECURSIVE HeaderLoopRejectingEmpty(_, _, _, _)
\* the loop ending in an error when it has gathered no summary
HeaderLoopRejectingEmpty(newest_uids, trips, list, reqs) ==
    IF newest_uids = <<>> THEN [ok |-> list # <<>>, list |-> list, reqs |-> reqs]
    ELSE LET uid == Head(newest_uids).uid
             date == Head(newest_uids).date
             resp == Head(trips)
         IN  IF ~resp.ok
             THEN [ok |-> FALSE, list |-> <<>>, reqs |-> Append(reqs, FetchFromDate(uid))]
             ELSE HeaderLoopRejectingEmpty(Tail(newest_uids), Tail(trips),
                                           list \o Summaries(uid, date, resp.val),
                                           Append(reqs, FetchFromDate(uid)))

RECURSIVE HeaderLoop(_, _, _, _)
\* the loop over newest_uids: `?` ends the call at the first failed round trip
HeaderLoop(newest_uids, trips, list, reqs) ==
    IF newest_uids = <<>> THEN [ok |-> TRUE, list |-> list, reqs |-> reqs]
    ELSE LET uid == Head(newest_uids).uid
             date == Head(newest_uids).date
             resp == Head(trips)
         IN  IF ~resp.ok
             THEN [ok |-> FALSE, list |-> <<>>, reqs |-> Append(reqs, FetchFromDate(uid))]
             ELSE HeaderLoop(Tail(newest_uids), Tail(trips),
                             list \o Summaries(uid, date, resp.val),
                             Append(reqs, FetchFromDate(uid)))

Call(op, uid, count) == [Blank EXCEPT !.op = op, !.uid = uid, !.count = count]

\* no call is under way
Idle == last = Blank

\* the UIDs the server has assigned so far: the ones a caller can have learned
Known == 1..(uidNext - 1)

\* fetch_inbox from the sort on, given the listing and the answers to the round trips
FetchInboxFrom(count, uid_dates, sorted, trips) ==
    LET newest_uids == Take(sorted, count)
        out == HeaderLoop(newest_uids, trips, <<>>, <<Select, FetchKeys>>)
    IN  [Call("fetch_inbox", 0, count) EXCEPT
            !.ok = out.ok,
            !.reqs = out.reqs,
            !.keys = uid_dates,
            !.list = out.list,
            !.val = IF out.ok THEN <<>> ELSE "header"]

\* the outcomes of fetch_inbox(count) once select and the listing have succeeded:
\* over the listings, the outcomes of the sort and the answers to the round trips
\* (one call meets at most one answer that is not the plain one)
FetchInboxOutcomes(mb, count) ==
    UNION {UNION {{FetchInboxFrom(count, UidDates(all_fetches), sorted, trips) :
                      trips \in RoundTrips(mb, Take(sorted, count))} :
                  sorted \in SortUnstableBy(UidDates(all_fetches))} :
           all_fetches \in Listings(mb)}
    \cup
    UNION {{FetchInboxFrom(count, UidDates(all_fetches), sorted,
                           PlainTrips(Take(sorted, count))) :
               sorted \in SortUnstableBy(UidDates(all_fetches))} :
           all_fetches \in PartialListings(mb)}

\* ImapClient::fetch_inbox(count)
FetchInbox ==
    /\ Idle
    /\ \E count \in 0..MaxCount :
        \/ \* select fails
           /\ last' = [Call("fetch_inbox", 0, count) EXCEPT
                          !.ok = FALSE, !.reqs = <<Select>>, !.val = "select"]
           /\ UNCHANGED <<mailbox, uidNext, selected, deletedOk, raw, shown, headerVars, uiVars, thread>>
        \/ \* the listing fails
           /\ selected' = TRUE
           /\ last' = [Call("fetch_inbox", 0, count) EXCEPT
                          !.ok = FALSE, !.reqs = <<Select, FetchKeys>>, !.val = "listing"]
           /\ UNCHANGED <<mailbox, uidNext, deletedOk, raw, shown, headerVars, uiVars, thread>>
        \/ /\ selected' = TRUE
           /\ last' \in FetchInboxOutcomes(mailbox, count)
           /\ UNCHANGED <<mailbox, uidNext, deletedOk, raw, shown, headerVars, uiVars, thread>>

RECURSIVE HeadersOfResponse(_)
\* the loop of fetch_headers: the first item with a header is parsed and returned;
\* with none, three empty strings
HeadersOfResponse(resp) ==
    IF resp = <<>> THEN EmptyHeaders
    ELSE IF IsSome(Head(resp).header)
         THEN DetailHeadersOf[Unwrap(Head(resp).header)]
         ELSE HeadersOfResponse(Tail(resp))

\* ImapClient::fetch_headers(uid)
FetchHeaders ==
    /\ Idle
    /\ \E uid \in Known :
        \/ /\ last' = [Call("fetch_headers", uid, 0) EXCEPT
                          !.ok = FALSE, !.reqs = <<Select>>, !.val = "select"]
           /\ UNCHANGED <<mailbox, uidNext, selected, deletedOk, raw, shown, headerVars, uiVars, thread>>
        \/ /\ selected' = TRUE
           /\ last' = [Call("fetch_headers", uid, 0) EXCEPT
                          !.ok = FALSE, !.reqs = <<Select, FetchFromSubjectDate(uid)>>,
                          !.val = "header"]
           /\ UNCHANGED <<mailbox, uidNext, deletedOk, raw, shown, headerVars, uiVars, thread>>
        \/ \E resp \in HeaderResponses(mailbox, uid, {FromTag, SubjectTag, DateTag}) :
               /\ selected' = TRUE
               /\ last' = [Call("fetch_headers", uid, 0) EXCEPT
                              !.reqs = <<Select, FetchFromSubjectDate(uid)>>,
                              !.val = HeadersOfResponse(resp)]
               /\ UNCHANGED <<mailbox, uidNext, deletedOk, raw, shown, headerVars, uiVars, thread>>

\* ImapClient::fetch_body(uid): no select of its own; the server refuses a UID FETCH
\* on a session with no folder selected
FetchBody ==
    /\ Idle
    /\ \E uid \in Known :
        \/ /\ last' = [Call("fetch_body", uid, 0) EXCEPT
                          !.ok = FALSE, !.reqs = <<FetchRfc822(uid)>>, !.val = "io"]
           /\ UNCHANGED <<mailbox, uidNext, selected, deletedOk, raw, shown, headerVars, uiVars, thread>>
        \/ /\ selected
           /\ \E resp \in BodyResponses(mailbox, uid) :
                  LET out == BodyOfResponse(resp)
                  IN  last' = [Call("fetch_body", uid, 0) EXCEPT
                                  !.ok = out.ok, !.reqs = <<FetchRfc822(uid)>>, !.val = out.val]
           /\ UNCHANGED <<mailbox, uidNext, selected, deletedOk, raw, shown, headerVars, uiVars, thread>>

\* UID STORE +FLAGS (\Deleted) on the server: a UID that names no message changes nothing
Flagged(mb, uid) == {IF m.uid = uid THEN [m EXCEPT !.flagged = TRUE] ELSE m : m \in mb}

\* an EXPUNGE that removes nothing
ExpungedNothing(mb) == mb

\* an EXPUNGE that removes one flagged message only, the one with the greatest UID
ExpungedNewest(mb) ==
    {m \in mb : ~m.flagged \/ \E x \in mb : x.flagged /\ x.uid > m.uid}

\* EXPUNGE on the server: every message flagged \Deleted is removed
Expunged(mb) == {m \in mb : ~m.flagged}

\* a delete_message that sends its EXPUNGE even though the UID STORE has failed
DeleteMessageExpungingAnyway ==
    /\ Idle
    /\ \E uid \in Known :
        \/ /\ last' = [Call("delete_message", uid, 0) EXCEPT
                          !.ok = FALSE, !.reqs = <<Select>>, !.val = "select"]
           /\ UNCHANGED <<mailbox, uidNext, selected, deletedOk, raw, shown, headerVars, uiVars, thread>>
        \/ /\ selected' = TRUE
           /\ mailbox' = Expunged(mailbox)
           /\ last' = [Call("delete_message", uid, 0) EXCEPT
                          !.ok = FALSE, !.reqs = <<Select, StoreDeleted(uid), Expunge>>,
                          !.val = "store"]
           /\ UNCHANGED <<uidNext, deletedOk, raw, shown, headerVars, uiVars, thread>>
        \/ /\ selected' = TRUE
           /\ mailbox' = Expunged(Flagged(mailbox, uid))
           /\ deletedOk' = deletedOk \cup {uid}
           /\ last' = [Call("delete_message", uid, 0) EXCEPT
                          !.reqs = <<Select, StoreDeleted(uid), Expunge>>]
           /\ UNCHANGED <<uidNext, raw, shown, headerVars, uiVars, thread>>

\* ImapClient::delete_message(uid)
DeleteMessage ==
    /\ Idle
    /\ \E uid \in Known :
        \/ /\ last' = [Call("delete_message", uid, 0) EXCEPT
                          !.ok = FALSE, !.reqs = <<Select>>, !.val = "select"]
           /\ UNCHANGED <<mailbox, uidNext, selected, deletedOk, raw, shown, headerVars, uiVars, thread>>
        \/ /\ selected' = TRUE
           /\ last' = [Call("delete_message", uid, 0) EXCEPT
                          !.ok = FALSE, !.reqs = <<Select, StoreDeleted(uid)>>,
                          !.val = "store"]
           /\ UNCHANGED <<mailbox, uidNext, deletedOk, raw, shown, headerVars, uiVars, thread>>
        \/ /\ selected' = TRUE
           /\ mailbox' = Flagged(mailbox, uid)
           /\ last' = [Call("delete_message", uid, 0) EXCEPT
                          !.ok = FALSE, !.reqs = <<Select, StoreDeleted(uid), Expunge>>,
                          !.val = "expunge"]
           /\ UNCHANGED <<uidNext, deletedOk, raw, shown, headerVars, uiVars, thread>>
        \/ /\ selected' = TRUE
           /\ mailbox' = Expunged(Flagged(mailbox, uid))
           /\ deletedOk' = deletedOk \cup {uid}
           /\ last' = [Call("delete_message", uid, 0) EXCEPT
                          !.reqs = <<Select, StoreDeleted(uid), Expunge>>]
           /\ UNCHANGED <<uidNext, raw, shown, headerVars, uiVars, thread>>

\* new mail is delivered to the INBOX: the server gives it the next UID
Arrive ==
    /\ Idle
    /\ uidNext <= MaxUid
    /\ \E date \in Dates :
           mailbox' = mailbox \cup {[uid |-> uidNext, date |-> date, flagged |-> FALSE]}
    /\ uidNext' = uidNext + 1
    /\ UNCHANGED <<selected, last, deletedOk, raw, shown, headerVars, uiVars, thread>>

\* what another client of the same folder may do to it: set \Deleted on a message,
\* expunge the messages that carry the flag, or both at once
Elsewhere(mb) ==
    {Flagged(mb, m.uid) : m \in {x \in mb : ~x.flagged}}
        \cup {Expunged(mb) : m \in {x \in mb : x.flagged}}
        \cup {Expunged(Flagged(mb, m.uid)) : m \in mb}

\* another client changes the folder between two calls of this one
ChangeElsewhere ==
    /\ Idle
    /\ mailbox' \in Elsewhere(mailbox)
    /\ UNCHANGED <<uidNext, selected, last, deletedOk, raw, shown, headerVars, uiVars, thread>>

\* the call has returned and its caller is done with the result
Return ==
    /\ ~Idle
    /\ last' = Blank
    /\ UNCHANGED <<mailbox, uidNext, selected, deletedOk, raw, shown, headerVars, uiVars, thread>>

\* after ImapClient::connect: logged in, no folder selected yet
Init ==
    /\ mailbox = {}
    /\ uidNext = 1
    /\ selected = FALSE
    /\ last = Blank
    /\ deletedOk = {}
    /\ thread = None
    /\ terminal = None
    /\ raw = MalformedRaw
    /\ shown = None
    /\ header_block = <<>>
    /\ extracted = None
    /\ app = None
    /\ keylog = None

Next ==
    \/ FetchInbox \/ FetchHeaders \/ FetchBody \/ DeleteMessage
    \/ Arrive \/ ChangeElsewhere \/ Return

Spec == Init /\ [][Next]_vars

(***************************************************************************)
(* BodySpec: fetch_body on one message, over every bounded part tree       *)
(***************************************************************************)
BodyInit ==
    /\ raw \in Messages
    /\ shown = None
    /\ mailbox = {}
    /\ uidNext = 1
    /\ selected = TRUE
    /\ last = Blank
    /\ deletedOk = {}
    /\ thread = None
    /\ terminal = None
    /\ header_block = <<>>
    /\ extracted = None
    /\ app = None
    /\ keylog = None

\* fetch_body once the UID FETCH RFC822 round trip has succeeded
BodyFetch ==
    /\ \E resp \in {<<[body |-> Some(raw)]>>, <<[body |-> None]>>, <<>>} :
           shown' = Some([resp |-> resp, out |-> BodyOfResponse(resp)])
    /\ UNCHANGED <<mailbox, uidNext, selected, last, deletedOk, raw, headerVars, uiVars, thread>>

\* the view is left (View mode, Esc)
BodyDismiss ==
    /\ shown # None
    /\ shown' = None
    /\ UNCHANGED <<mailbox, uidNext, selected, last, deletedOk, raw, headerVars, uiVars, thread>>

BodyNext == BodyFetch \/ BodyDismiss

BodySpec == BodyInit /\ [][BodyNext]_vars

(***************************************************************************)
(* HeaderSpec: the header extraction of fetch_inbox and fetch_headers on   *)
(* one header block, over every block of up to MaxLines lines              *)
(***************************************************************************)
HeaderLineChoices ==
    { <<"F", "r", "o", "m", ":", " ", "J", " ", "<", "j", "@", "x", ">">>,
      <<"f", "r", "o", "m", ":", "j", "@", "x">>,
      <<"F", "R", "O", "M", ":", " ", "J", " ", "<", "j", "@", "x">>,
      <<"F", "r", "o", "m", ":", " ", "a", ">", "b", "<", "c", ">", "d", " ">>,
      <<"F", "r", "o", "m", ":", " ">>,
      <<"S", "u", "b", "j", "e", "c", "t", ":", "\t", "s", " ", "t">>,
      <<"d", "A", "t", "E", ":", " ", "d">>,
      <<" ", "F", "r", "o", "m", ":", " ", "z">> }

RECURSIVE LinesUpTo(_)
\* the sequences of at most n lines
LinesUpTo(n) ==
    IF n = 0 THEN {<<>>}
    ELSE LinesUpTo(n - 1)
            \cup {Append(ls, l) : ls \in {x \in LinesUpTo(n - 1) : Len(x) = n - 1},
                                  l \in HeaderLineChoices}

\* a header block on the wire: every line ended by CRLF, then the empty line
HeaderBlock(lines) == Concat([i \in DOMAIN lines |-> lines[i] \o CRLF]) \o CRLF

HeaderInit ==
    /\ header_block \in {HeaderBlock(ls) : ls \in LinesUpTo(MaxLines)}
    /\ extracted = None
    /\ mailbox = {}
    /\ uidNext = 1
    /\ selected = TRUE
    /\ last = Blank
    /\ deletedOk = {}
    /\ thread = None
    /\ terminal = None
    /\ raw = MalformedRaw
    /\ shown = None
    /\ app = None
    /\ keylog = None

\* the body of `if let Some(header_bytes) = fetch.header()` in fetch_inbox (the
\* sender of the summary) and in fetch_headers (the triple it returns)
HeaderExtract ==
    /\ extracted = None
    /\ extracted' = Some([from_line |-> SummaryFrom(Utf8Lossy(header_block)),
                          detail |-> Ok(DetailHeaders(Utf8Lossy(header_block)))])
    /\ UNCHANGED <<mailbox, uidNext, selected, last, deletedOk, raw, shown, header_block, uiVars, thread>>

\* the values are handed to the caller
HeaderReturn ==
    /\ extracted # None
    /\ extracted' = None
    /\ UNCHANGED <<mailbox, uidNext, selected, last, deletedOk, raw, shown, header_block, uiVars, thread>>

HeaderNext == HeaderExtract \/ HeaderReturn

HeaderSpec == HeaderInit /\ [][HeaderNext]_vars

(***************************************************************************)
(* UISpec: App::run, one action per key handler, with the callbacks of     *)
(* main bound to the session operations above                              *)
(***************************************************************************)
\* let mut inbox_count: usize = 20
InitialInboxCount == 20
\* self.inbox_count += 10
LoadMoreStep == 10

\* ms.date.format("%a, %e %b %Y %T %z")
DateFormat(date) == <<"@", ToString(date)>>

\* (ms.uid, format!("{}    {}", ms.from, date_str))
ItemOf(ms) == <<ms.uid, ms.from \o <<" ", " ", " ", " ">> \o DateFormat(ms.date)>>

\* summaries.into_iter().map(..).collect()
ItemsOf(summaries) == [i \in DOMAIN summaries |-> ItemOf(summaries[i])]

\* every way a fetch_inbox(count) call can go
FetchInboxCalls(mb, count) ==
    {[Call("fetch_inbox", 0, count) EXCEPT !.ok = FALSE, !.reqs = <<Select>>, !.val = "select"],
     [Call("fetch_inbox", 0, count) EXCEPT
         !.ok = FALSE, !.reqs = <<Select, FetchKeys>>, !.val = "listing"]}
        \cup FetchInboxOutcomes(mb, count)

\* every way a fetch_headers(uid) call can go
FetchHeadersCalls(mb, uid) ==
    {[Call("fetch_headers", uid, 0) EXCEPT !.ok = FALSE, !.reqs = <<Select>>, !.val = "select"],
     [Call("fetch_headers", uid, 0) EXCEPT
         !.ok = FALSE, !.reqs = <<Select, FetchFromSubjectDate(uid)>>, !.val = "header"]}
        \cup {[Call("fetch_headers", uid, 0) EXCEPT
                  !.reqs = <<Select, FetchFromSubjectDate(uid)>>,
                  !.val = HeadersOfResponse(resp)] :
              resp \in HeaderResponses(mb, uid, {FromTag, SubjectTag, DateTag})}

\* every way a fetch_body(uid) call can go on a session with a folder selected
FetchBodyCalls(mb, uid) ==
    {[Call("fetch_body", uid, 0) EXCEPT
         !.ok = FALSE, !.reqs = <<FetchRfc822(uid)>>, !.val = "io"]}
        \cup {[Call("fetch_body", uid, 0) EXCEPT
                  !.ok = BodyOfResponse(resp).ok,
                  !.reqs = <<FetchRfc822(uid)>>,
                  !.val = BodyOfResponse(resp).val] :
              resp \in BodyResponses(mb, uid)}

\* every way a delete_message(uid) call can go, with the folder it leaves
DeleteMessageCalls(mb, uid) ==
    {[call |-> [Call("delete_message", uid, 0) EXCEPT
                   !.ok = FALSE, !.reqs = <<Select>>, !.val = "select"],
      mailbox |-> mb],
     [call |-> [Call("delete_message", uid, 0) EXCEPT
                   !.ok = FALSE, !.reqs = <<Select, StoreDeleted(uid)>>, !.val = "store"],
      mailbox |-> mb],
     [call |-> [Call("delete_message", uid, 0) EXCEPT
                   !.ok = FALSE, !.reqs = <<Select, StoreDeleted(uid), Expunge>>,
                   !.val = "expunge"],
      mailbox |-> Flagged(mb, uid)],
     [call |-> [Call("delete_message", uid, 0) EXCEPT
                   !.reqs = <<Select, StoreDeleted(uid), Expunge>>],
      mailbox |-> Expunged(Flagged(mb, uid))]}

\* format!("From: {}\nSubject: {}\nDate: {}\n\n{}", ..)
Combined(headers, body_text) ==
    <<"F", "r", "o", "m", ":", " ">> \o headers.from \o <<"\n">>
        \o <<"S", "u", "b", "j", "e", "c", "t", ":", " ">> \o headers.subject \o <<"\n">>
        \o <<"D", "a", "t", "e", ":", " ">> \o headers.date \o <<"\n", "\n">>
        \o body_text

\* on_view answering from what it fetched before: the same text, no round trip
on_view_cached(mb, uid) ==
    UNION {{[calls |-> <<>>, result |-> Ok(Combined(h.val, b.val))] :
               b \in {c \in FetchBodyCalls(mb, uid) : c.ok}} :
           h \in {c \in FetchHeadersCalls(mb, uid) : c.ok}}

\* on_view sending the header request a second time when it has failed
on_view_retrying(mb, uid) ==
    {[calls |-> <<h, h>>, result |-> Err(h.val)] :
        h \in {c \in FetchHeadersCalls(mb, uid) : ~c.ok}}
        \cup UNION {{[calls |-> <<h, b>>,
                      result |-> IF b.ok THEN Ok(Combined(h.val, b.val)) ELSE Err(b.val)] :
                        b \in FetchBodyCalls(mb, uid)} :
                    h \in {c \in FetchHeadersCalls(mb, uid) : c.ok}}

\* the closure on_view: fetch_headers, then fetch_body, each `?` returning the error
on_view(mb, uid) ==
    {[calls |-> <<h>>, result |-> Err(h.val)] : h \in {c \in FetchHeadersCalls(mb, uid) : ~c.ok}}
        \cup UNION {{[calls |-> <<h, b>>,
                      result |-> IF b.ok THEN Ok(Combined(h.val, b.val)) ELSE Err(b.val)] :
                        b \in FetchBodyCalls(mb, uid)} :
                    h \in {c \in FetchHeadersCalls(mb, uid) : c.ok}}

\* on_refresh handing over whatever list there is, error or not
on_refresh_lenient(mb, new_count) ==
    {[calls |-> <<c>>, result |-> Ok(ItemsOf(c.list))] : c \in FetchInboxCalls(mb, new_count)}

\* the closure on_refresh: fetch_inbox and the summaries made into list rows
on_refresh(mb, new_count) ==
    {[calls |-> <<c>>, result |-> IF c.ok THEN Ok(ItemsOf(c.list)) ELSE Err(c.val)] :
        c \in FetchInboxCalls(mb, new_count)}

\* the closure on_delete: delete_message
on_delete(mb, uid) ==
    {[calls |-> <<d.call>>,
      result |-> IF d.call.ok THEN Ok(<<>>) ELSE Err(d.call.val),
      mailbox |-> d.mailbox] : d \in DeleteMessageCalls(mb, uid)}

\* what lettre accepts as a mailbox: something on either side of an "@"
IsAddress(to) == \E i \in 2..(Len(to) - 1) : to[i] = "@"

\* on_send handing the message to SMTP a second time
on_send_twice(to, subject, body) ==
    LET sent(ok, why) ==
            [calls |-> [i \in 1..2 |-> [Call("on_send", 0, 0) EXCEPT
                                           !.ok = ok, !.val = <<to, subject, body>>]],
             result |-> IF ok THEN Ok(<<>>) ELSE Err(why)]
    IN  IF IsAddress(to) THEN {sent(TRUE, ""), sent(FALSE, "smtp")}
        ELSE {sent(FALSE, "address")}

\* the closure on_send: the message is built (to.parse()?) and handed to SMTP
on_send(to, subject, body) ==
    LET sent(ok, why) ==
            [calls |-> <<[Call("on_send", 0, 0) EXCEPT
                             !.ok = ok, !.val = <<to, subject, body>>]>>,
             result |-> IF ok THEN Ok(<<>>) ELSE Err(why)]
    IN  IF IsAddress(to) THEN {sent(TRUE, ""), sent(FALSE, "smtp")}
        ELSE {sent(FALSE, "address")}

\* TextArea::default(): one empty line, the cursor at its end
TextAreaDefault == << <<>> >>

\* TextArea::input with the cursor at the end of the text: a character goes to the
\* last line, Enter opens a new line, Backspace takes the last character or, on an
\* empty line, the line break before it
TextAreaInput(lines, key) ==
    LET n == Len(lines)
    IN  CASE key = "Enter" -> Append(lines, <<>>)
          [] key = "Backspace" ->
                 IF lines[n] # <<>> THEN [lines EXCEPT ![n] = SubSeq(@, 1, Len(@) - 1)]
                 ELSE IF n > 1 THEN SubSeq(lines, 1, n - 1)
                 ELSE lines
          [] OTHER -> [lines EXCEPT ![n] = Append(@, key)]

RECURSIVE JoinLines(_)
\* self.compose_body.lines().join("\n")
JoinLines(lines) ==
    IF lines = <<>> THEN <<>>
    ELSE IF Len(lines) = 1 THEN lines[1]
    ELSE lines[1] \o <<"\n">> \o JoinLines(Tail(lines))

\* App::new
AppNew(items, inbox_count, tooltip) ==
    [items |-> items, selected |-> 0, mode |-> "Inbox",
     view_buffer |-> <<>>, view_scroll |-> 0,
     compose_to |-> <<>>, compose_subject |-> <<>>, compose_body |-> TextAreaDefault,
     compose_field |-> "To",
     inbox_count |-> inbox_count, tooltip |-> tooltip]

\* the folders the program can find at start-up
InitialMailboxes ==
    {mb \in SUBSET [uid : Uids, date : Dates, flagged : {FALSE}] :
        /\ \A m, n \in mb : m.uid = n.uid => m = n
        /\ \A m \in mb : \A u \in 1..m.uid : Present(mb, u)}

\* main up to the loop of app.run(): the first fetch_inbox has succeeded and filled
\* the list, raw mode is enabled and the alternate screen entered
UIInit ==
    /\ mailbox \in InitialMailboxes
    /\ uidNext = Cardinality(mailbox) + 1
    /\ selected = TRUE
    /\ deletedOk = {}
    /\ thread = None
    /\ terminal = [raw |-> TRUE, alternate |-> TRUE]
    /\ last = Blank
    /\ raw = MalformedRaw
    /\ shown = None
    /\ header_block = <<>>
    /\ extracted = None
    /\ \E r \in on_refresh(mailbox, InitialInboxCount) :
           /\ r.result.ok
           /\ app = AppNew(r.result.val, InitialInboxCount, "")
    /\ keylog = [key |-> "", mode |-> "Inbox", calls |-> <<>>, run |-> "looping", n |-> 0,
                 changes |-> 0]

\* a call as the log keeps it: what was asked, the requests sent, the outcome
Logged(call) == [call EXCEPT !.keys = <<>>]

\* the key just handled in the mode it was read in, the calls made for it, where
\* run is (in its loop, returned, or unwound by a panic) and the keys handled so far
Handled(key, calls, run) ==
    [key |-> key, mode |-> app.mode, calls |-> [i \in DOMAIN calls |-> Logged(calls[i])],
     run |-> run, n |-> keylog.n + 1, changes |-> keylog.changes]

\* event::read() has delivered a key while the loop runs in the given mode
KeyIn(mode) == keylog.run = "looping" /\ app.mode = mode /\ keylog.n < MaxKeys

\* how run goes on after a callback: `?` returns its error
After(result) == IF result.ok THEN "looping" ELSE "returned Err"

\* self.items[self.selected] does not panic
InBounds == app.selected < Len(app.items)

\* the UID of the first row, whatever row is highlighted
FirstUid == app.items[1][1]

\* self.items[self.selected].0
SelectedUid == app.items[app.selected + 1][1]

\* str::lines: the pieces between "\n", a "\r" before it dropped
RECURSIVE StrLines(_)
StrLines(s) ==
    IF s = <<>> THEN <<>>
    ELSE LET at == {i \in DOMAIN s : s[i] = "\n"}
             cut(l) == IF l # <<>> /\ l[Len(l)] = "\r" THEN SubSeq(l, 1, Len(l) - 1) ELSE l
         IN  IF at = {} THEN <<s>>
             ELSE LET i == CHOOSE k \in at : \A j \in at : k <= j
                  IN  <<cut(SubSeq(s, 1, i - 1))>> \o StrLines(SubSeq(s, i + 1, Len(s)))

\* lines.next().and_then(|l| l.strip_prefix(prefix)).unwrap_or("")
NextStripped(lines, n, prefix) ==
    IF Len(lines) >= n /\ StartsWith(lines[n], prefix) THEN From(lines[n], Len(prefix)) ELSE <<>>

\* Inbox, 'q': break, then the statements after the loop: disable_raw_mode()?,
\* execute!(stdout, LeaveAlternateScreen)?, Ok(())
InboxQuit ==
    /\ KeyIn("Inbox")
    /\ \/ /\ keylog' = Handled("q", <<>>, "returned Err")
          /\ terminal' = terminal
       \/ /\ keylog' = Handled("q", <<>>, "returned Err")
          /\ terminal' = [terminal EXCEPT !.raw = FALSE]
       \/ /\ keylog' = Handled("q", <<>>, "returned Ok")
          /\ terminal' = [raw |-> FALSE, alternate |-> FALSE]
    /\ UNCHANGED <<mailbox, uidNext, selected, last, deletedOk, raw, shown, headerVars, app, thread>>

\* Inbox, 'v'
InboxView ==
    /\ KeyIn("Inbox")
    /\ IF ~InBounds
       THEN keylog' = Handled("v", <<>>, "panicked") /\ app' = app
       ELSE \E v \in on_view(mailbox, SelectedUid) :
               /\ keylog' = Handled("v", v.calls, After(v.result))
               /\ app' = IF v.result.ok
                         THEN [app EXCEPT !.view_buffer = v.result.val,
                                          !.view_scroll = 0,
                                          !.mode = "View",
                                          !.tooltip = ""]
                         ELSE app
    /\ UNCHANGED <<mailbox, uidNext, selected, last, deletedOk, raw, shown, headerVars, thread, terminal>>

\* Inbox, 'r'
InboxReply ==
    /\ KeyIn("Inbox")
    /\ IF ~InBounds
       THEN keylog' = Handled("r", <<>>, "panicked") /\ app' = app
       ELSE \E v \in on_view(mailbox, SelectedUid) :
               /\ keylog' = Handled("r", v.calls, After(v.result))
               /\ app' =
                    IF v.result.ok
                    THEN LET lines == StrLines(v.result.val)
                             from_line == NextStripped(lines, 1, <<"F", "r", "o", "m", ":", " ">>)
                             subject_line ==
                                 NextStripped(lines, 2,
                                              <<"S", "u", "b", "j", "e", "c", "t", ":", " ">>)
                         IN  [app EXCEPT
                                 !.compose_to = from_line,
                                 !.compose_subject =
                                     IF StartsWith(ToLowercase(subject_line), <<"r", "e", ":">>)
                                     THEN subject_line
                                     ELSE <<"R", "e", ":", " ">> \o subject_line,
                                 !.compose_body = TextAreaDefault,
                                 !.compose_field = "Body",
                                 !.mode = "Compose",
                                 !.tooltip = ""]
                    ELSE app
    /\ UNCHANGED <<mailbox, uidNext, selected, last, deletedOk, raw, shown, headerVars, thread, terminal>>

\* Inbox, 'c'
InboxCompose ==
    /\ KeyIn("Inbox")
    /\ app' = [app EXCEPT !.compose_to = <<>>, !.compose_subject = <<>>,
                          !.compose_body = TextAreaDefault,
                          !.compose_field = "To", !.mode = "Compose", !.tooltip = ""]
    /\ keylog' = Handled("c", <<>>, "looping")
    /\ UNCHANGED <<mailbox, uidNext, selected, last, deletedOk, raw, shown, headerVars, thread, terminal>>

\* Inbox, 'm': the count and the status line are changed before the callback runs
InboxMore ==
    /\ KeyIn("Inbox")
    /\ app.inbox_count < InitialInboxCount + MaxLoads * LoadMoreStep
    /\ \E r \in on_refresh(mailbox, app.inbox_count + LoadMoreStep) :
           /\ keylog' = Handled("m", r.calls, After(r.result))
           /\ app' = IF r.result.ok
                     THEN [app EXCEPT
                              !.inbox_count = @ + LoadMoreStep,
                              !.items = r.result.val,
                              !.selected = 0,
                              !.tooltip = "Successfully loaded "
                                              \o ToString(app.inbox_count + LoadMoreStep)
                                              \o " messages"]
                     ELSE [app EXCEPT !.inbox_count = @ + LoadMoreStep,
                                      !.tooltip = "Loading more..."]
    /\ UNCHANGED <<mailbox, uidNext, selected, last, deletedOk, raw, shown, headerVars, thread, terminal>>

\* Inbox, 'd': the first 'd'
InboxDelete ==
    /\ KeyIn("Inbox")
    /\ app' = [app EXCEPT
                  !.mode = "ConfirmDelete",
                  !.tooltip = "Are you sure you want to delete? Press 'd' again to confirm."]
    /\ keylog' = Handled("d", <<>>, "looping")
    /\ UNCHANGED <<mailbox, uidNext, selected, last, deletedOk, raw, shown, headerVars, thread, terminal>>

\* Down moving the highlight on without wrapping
InboxDownPastEnd ==
    /\ keylog.run = "looping" /\ app.mode = "Inbox" /\ keylog.n < MaxKeys
    /\ app' = [app EXCEPT !.selected = @ + 1, !.tooltip = ""]
    /\ keylog' = [key |-> "Down", mode |-> app.mode, calls |-> <<>>, run |-> "looping",
                  n |-> keylog.n + 1, changes |-> keylog.changes]
    /\ UNCHANGED <<mailbox, uidNext, selected, last, deletedOk, raw, shown, headerVars, thread, terminal>>

\* Inbox, Down
InboxDown ==
    /\ KeyIn("Inbox")
    /\ app' = [app EXCEPT
                  !.selected = IF app.items # <<>> THEN (@ + 1) % Len(app.items) ELSE @,
                  !.tooltip = ""]
    /\ keylog' = Handled("Down", <<>>, "looping")
    /\ UNCHANGED <<mailbox, uidNext, selected, last, deletedOk, raw, shown, headerVars, thread, terminal>>

\* Inbox, Up
InboxUp ==
    /\ KeyIn("Inbox")
    /\ app' = [app EXCEPT !.selected = IF @ > 0 THEN @ - 1 ELSE @, !.tooltip = ""]
    /\ keylog' = Handled("Up", <<>>, "looping")
    /\ UNCHANGED <<mailbox, uidNext, selected, last, deletedOk, raw, shown, headerVars, thread, terminal>>

\* Inbox, any other key
InboxOther ==
    /\ KeyIn("Inbox")
    /\ \E key \in {"Esc", "Enter", "Tab", "x"} : keylog' = Handled(key, <<>>, "looping")
    /\ UNCHANGED <<mailbox, uidNext, selected, last, deletedOk, raw, shown, headerVars, app, thread, terminal>>

\* ConfirmDelete, 'd': the second 'd'
ConfirmDeleteConfirm ==
    /\ KeyIn("ConfirmDelete")
    /\ IF ~InBounds
       THEN /\ keylog' = Handled("d", <<>>, "panicked")
            /\ UNCHANGED <<app, mailbox, deletedOk>>
       ELSE \E d \in on_delete(mailbox, SelectedUid) :
               /\ mailbox' = d.mailbox
               /\ IF ~d.result.ok
                  THEN /\ keylog' = Handled("d", d.calls, "returned Err")
                       /\ UNCHANGED <<app, deletedOk>>
                  ELSE /\ deletedOk' = deletedOk \cup {SelectedUid}
                       /\ \E r \in on_refresh(d.mailbox, app.inbox_count) :
                              /\ keylog' = Handled("d", d.calls \o r.calls, After(r.result))
                              /\ app' = IF r.result.ok
                                        THEN [app EXCEPT !.items = r.result.val,
                                                         !.selected = 0,
                                                         !.mode = "Inbox",
                                                         !.tooltip = "Deleted!"]
                                        ELSE app
    /\ UNCHANGED <<uidNext, selected, last, raw, shown, headerVars, thread, terminal>>

\* ConfirmDelete, Esc
ConfirmDeleteEsc ==
    /\ KeyIn("ConfirmDelete")
    /\ app' = [app EXCEPT !.mode = "Inbox", !.tooltip = ""]
    /\ keylog' = Handled("Esc", <<>>, "looping")
    /\ UNCHANGED <<mailbox, uidNext, selected, last, deletedOk, raw, shown, headerVars, thread, terminal>>

\* any other key cancelling with the highlight moved back to the first row
ConfirmDeleteOtherResetting ==
    /\ keylog.run = "looping" /\ app.mode = "ConfirmDelete" /\ keylog.n < MaxKeys
    /\ app' = [app EXCEPT !.mode = "Inbox", !.selected = 0, !.tooltip = ""]
    /\ \E key \in {"q", "v", "r", "c", "m", "Down", "Up", "Enter", "x"} :
           keylog' = [key |-> key, mode |-> app.mode, calls |-> <<>>, run |-> "looping",
                      n |-> keylog.n + 1, changes |-> keylog.changes]
    /\ UNCHANGED <<mailbox, uidNext, selected, last, deletedOk, raw, shown, headerVars, thread, terminal>>

\* ConfirmDelete, any other key
ConfirmDeleteOther ==
    /\ KeyIn("ConfirmDelete")
    /\ app' = [app EXCEPT !.mode = "Inbox", !.tooltip = ""]
    /\ \E key \in {"q", "v", "r", "c", "m", "Down", "Up", "Enter", "x"} :
           keylog' = Handled(key, <<>>, "looping")
    /\ UNCHANGED <<mailbox, uidNext, selected, last, deletedOk, raw, shown, headerVars, thread, terminal>>

\* View, Esc
ViewEsc ==
    /\ KeyIn("View")
    /\ app' = [app EXCEPT !.mode = "Inbox", !.tooltip = ""]
    /\ keylog' = Handled("Esc", <<>>, "looping")
    /\ UNCHANGED <<mailbox, uidNext, selected, last, deletedOk, raw, shown, headerVars, thread, terminal>>

\* View, Down: saturating_add(1)
ViewDown ==
    /\ KeyIn("View")
    /\ app.view_scroll < MaxScroll
    /\ app' = [app EXCEPT !.view_scroll = @ + 1]
    /\ keylog' = Handled("Down", <<>>, "looping")
    /\ UNCHANGED <<mailbox, uidNext, selected, last, deletedOk, raw, shown, headerVars, thread, terminal>>

\* View, Up: saturating_sub(1)
ViewUp ==
    /\ KeyIn("View")
    /\ app' = [app EXCEPT !.view_scroll = IF @ > 0 THEN @ - 1 ELSE 0]
    /\ keylog' = Handled("Up", <<>>, "looping")
    /\ UNCHANGED <<mailbox, uidNext, selected, last, deletedOk, raw, shown, headerVars, thread, terminal>>

\* View with 'q' ending the loop as it does in Inbox
ViewOtherQuitting ==
    /\ keylog.run = "looping" /\ app.mode = "View" /\ keylog.n < MaxKeys
    /\ \E key \in {"q", "d", "v", "m", "x"} :
           keylog' = [key |-> key, mode |-> app.mode, calls |-> <<>>,
                      run |-> IF key = "q" THEN "returned Ok" ELSE "looping",
                      n |-> keylog.n + 1, changes |-> keylog.changes]
    /\ UNCHANGED <<mailbox, uidNext, selected, last, deletedOk, raw, shown, headerVars, app, thread, terminal>>

\* View, any other key
ViewOther ==
    /\ KeyIn("View")
    /\ \E key \in {"q", "d", "v", "m", "x"} : keylog' = Handled(key, <<>>, "looping")
    /\ UNCHANGED <<mailbox, uidNext, selected, last, deletedOk, raw, shown, headerVars, app, thread, terminal>>

\* Compose, Esc
ComposeEsc ==
    /\ KeyIn("Compose")
    /\ app' = [app EXCEPT !.mode = "Inbox", !.tooltip = ""]
    /\ keylog' = Handled("Esc", <<>>, "looping")
    /\ UNCHANGED <<mailbox, uidNext, selected, last, deletedOk, raw, shown, headerVars, thread, terminal>>

\* Compose, Tab
ComposeTab ==
    /\ KeyIn("Compose")
    /\ app' = [app EXCEPT
                  !.compose_field = CASE @ = "To" -> "Subject"
                                      [] @ = "Subject" -> "Body"
                                      [] OTHER -> "To",
                  !.tooltip = ""]
    /\ keylog' = Handled("Tab", <<>>, "looping")
    /\ UNCHANGED <<mailbox, uidNext, selected, last, deletedOk, raw, shown, headerVars, thread, terminal>>

\* Compose, Shift+Tab
ComposeBackTab ==
    /\ KeyIn("Compose")
    /\ app' = [app EXCEPT
                  !.compose_field = CASE @ = "To" -> "Body"
                                      [] @ = "Subject" -> "To"
                                      [] OTHER -> "Subject",
                  !.tooltip = ""]
    /\ keylog' = Handled("BackTab", <<>>, "looping")
    /\ UNCHANGED <<mailbox, uidNext, selected, last, deletedOk, raw, shown, headerVars, thread, terminal>>

\* Compose, Ctrl+S
ComposeSend ==
    /\ KeyIn("Compose")
    /\ \E s \in on_send(app.compose_to, app.compose_subject, JoinLines(app.compose_body)) :
           /\ keylog' = Handled("Ctrl+S", s.calls, After(s.result))
           /\ app' = IF s.result.ok THEN [app EXCEPT !.mode = "Inbox", !.tooltip = "Sent!"]
                     ELSE app
    /\ UNCHANGED <<mailbox, uidNext, selected, last, deletedOk, raw, shown, headerVars, thread, terminal>>

\* the characters typed in Compose
TypedChars == {"q", "d"}

\* what has been typed so far, over the three fields
Typed == Len(app.compose_to) + Len(app.compose_subject) + Len(JoinLines(app.compose_body))

\* String::pop
Pop(s) == IF s = <<>> THEN s ELSE SubSeq(s, 1, Len(s) - 1)

\* Compose with the focus on To: a character, Backspace, Enter, any other key
ComposeTo ==
    /\ KeyIn("Compose")
    /\ app.compose_field = "To"
    /\ \/ \E c \in TypedChars :
              /\ Typed < MaxTyped
              /\ app' = [app EXCEPT !.compose_to = Append(@, c), !.tooltip = ""]
              /\ keylog' = Handled(c, <<>>, "looping")
       \/ /\ app' = [app EXCEPT !.compose_to = Pop(@)]
          /\ keylog' = Handled("Backspace", <<>>, "looping")
       \/ /\ app' = [app EXCEPT !.compose_field = "Subject"]
          /\ keylog' = Handled("Enter", <<>>, "looping")
       \/ /\ app' = app
          /\ keylog' = Handled("Down", <<>>, "looping")
    /\ UNCHANGED <<mailbox, uidNext, selected, last, deletedOk, raw, shown, headerVars, thread, terminal>>

\* Compose with the focus on Subject
ComposeSubject ==
    /\ KeyIn("Compose")
    /\ app.compose_field = "Subject"
    /\ \/ \E c \in TypedChars :
              /\ Typed < MaxTyped
              /\ app' = [app EXCEPT !.compose_subject = Append(@, c), !.tooltip = ""]
              /\ keylog' = Handled(c, <<>>, "looping")
       \/ /\ app' = [app EXCEPT !.compose_subject = Pop(@)]
          /\ keylog' = Handled("Backspace", <<>>, "looping")
       \/ /\ app' = [app EXCEPT !.compose_field = "Body"]
          /\ keylog' = Handled("Enter", <<>>, "looping")
       \/ /\ app' = app
          /\ keylog' = Handled("Down", <<>>, "looping")
    /\ UNCHANGED <<mailbox, uidNext, selected, last, deletedOk, raw, shown, headerVars, thread, terminal>>

\* Compose with the focus on Body: the key goes to the TextArea
ComposeBody ==
    /\ KeyIn("Compose")
    /\ app.compose_field = "Body"
    /\ \/ \E key \in TypedChars \cup {"Enter"} :
              /\ Typed < MaxTyped
              /\ app' = [app EXCEPT !.compose_body = TextAreaInput(@, key), !.tooltip = ""]
              /\ keylog' = Handled(key, <<>>, "looping")
       \/ /\ app' = [app EXCEPT !.compose_body = TextAreaInput(@, "Backspace"),
                                !.tooltip = ""]
          /\ keylog' = Handled("Backspace", <<>>, "looping")
    /\ UNCHANGED <<mailbox, uidNext, selected, last, deletedOk, raw, shown, headerVars, thread, terminal>>

\* new mail given the lowest UID that no message of the folder has at the time
UIArriveReusingUid ==
    /\ keylog.run = "looping"
    /\ uidNext <= MaxUid
    /\ \E date \in Dates :
           LET free == {u \in 1..uidNext : ~Present(mailbox, u)}
               uid == CHOOSE u \in free : \A w \in free : u <= w
           IN  mailbox' = mailbox \cup {[uid |-> uid, date |-> date, flagged |-> FALSE]}
    /\ uidNext' = uidNext + 1
    /\ UNCHANGED <<selected, last, deletedOk, raw, shown, headerVars, uiVars, thread>>

\* new mail is delivered while the program waits for a key
UIArrive ==
    /\ keylog.run = "looping"
    /\ uidNext <= MaxUid
    /\ \E date \in Dates :
           mailbox' = mailbox \cup {[uid |-> uidNext, date |-> date, flagged |-> FALSE]}
    /\ uidNext' = uidNext + 1
    /\ UNCHANGED <<selected, last, deletedOk, raw, shown, headerVars, uiVars, thread>>

\* term.draw(..)? or event::read()? fails: run returns the error
UIEventError ==
    /\ keylog.run = "looping"
    /\ keylog' = [keylog EXCEPT !.key = "", !.calls = <<>>, !.run = "returned Err"]
    /\ UNCHANGED <<mailbox, uidNext, selected, last, deletedOk, raw, shown, headerVars, app, thread, terminal>>

\* another client changes the folder while the program waits for a key
UIChangeElsewhere ==
    /\ keylog.run = "looping"
    /\ keylog.changes < MaxChanges
    /\ mailbox' \in Elsewhere(mailbox)
    /\ keylog' = [keylog EXCEPT !.changes = @ + 1]
    /\ UNCHANGED <<uidNext, selected, last, deletedOk, raw, shown, headerVars, app, thread, terminal>>

UINext ==
    \/ InboxQuit \/ InboxView \/ InboxReply \/ InboxCompose \/ InboxMore \/ InboxDelete
    \/ InboxDown \/ InboxUp \/ InboxOther
    \/ ConfirmDeleteConfirm \/ ConfirmDeleteEsc \/ ConfirmDeleteOther
    \/ ViewEsc \/ ViewDown \/ ViewUp \/ ViewOther
    \/ ComposeEsc \/ ComposeTab \/ ComposeBackTab \/ ComposeSend
    \/ ComposeTo \/ ComposeSubject \/ ComposeBody
    \/ UIEventError \/ UIArrive \/ UIChangeElsewhere

UISpec == UIInit /\ [][UINext]_vars

(***************************************************************************)
(* BorrowSpec: the closures of main run statement by statement on the one  *)
(* thread of the program, each taking imap.borrow_mut() for its duration   *)
(***************************************************************************)
\* a closure that keeps its RefMut alive when it returns
ClosureLeakingGuard(cb) ==
    CASE cb = "on_view" ->
             <<"borrow_mut", Select.cmd, FetchFromSubjectDate(0).cmd, FetchRfc822(0).cmd>>
      [] cb = "on_refresh" ->
             <<"borrow_mut", Select.cmd, FetchKeys.cmd, FetchFromDate(0).cmd>>
      [] OTHER ->
             <<"borrow_mut", Select.cmd, StoreDeleted(0).cmd, Expunge.cmd>>

\* the statements of the closures on_view, on_refresh and on_delete: the guard
\* is taken first, the requests of the session operations follow (fetch_inbox
\* with one per-UID fetch), and the guard is dropped where the closure ends
Closure(cb) ==
    CASE cb = "on_view" ->
             <<"borrow_mut", Select.cmd, FetchFromSubjectDate(0).cmd, FetchRfc822(0).cmd,
               "drop">>
      [] cb = "on_refresh" ->
             <<"borrow_mut", Select.cmd, FetchKeys.cmd, FetchFromDate(0).cmd, "drop">>
      [] OTHER ->
             <<"borrow_mut", Select.cmd, StoreDeleted(0).cmd, Expunge.cmd, "drop">>

\* the closures a key handler of App::run calls, in order: none; 'v' and 'r';
\* 'm'; the confirming 'd'
HandlerCalls == {<<>>, <<"on_view">>, <<"on_refresh">>, <<"on_delete", "on_refresh">>}

\* main has made the first fetch_inbox inside its own block, whose guard is gone,
\* and has entered App::run
BorrowInit ==
    /\ thread = [todo |-> <<>>, stack |-> <<>>, held |-> <<>>, wire |-> <<>>,
                 run |-> "looping", n |-> 0]
    /\ mailbox = {}
    /\ uidNext = 1
    /\ selected = TRUE
    /\ last = Blank
    /\ deletedOk = {}
    /\ raw = MalformedRaw
    /\ shown = None
    /\ header_block = <<>>
    /\ extracted = None
    /\ app = None
    /\ keylog = None
    /\ terminal = None

\* event::read() delivers a key and its handler starts
BorrowKey ==
    /\ thread.run = "looping" /\ thread.todo = <<>> /\ thread.stack = <<>>
    /\ thread.n < MaxKeys
    /\ \E calls \in HandlerCalls :
           thread' = [thread EXCEPT !.todo = calls, !.wire = <<>>, !.n = @ + 1]
    /\ UNCHANGED <<mailbox, uidNext, selected, last, deletedOk, raw, shown, headerVars, uiVars>>

\* the handler calls its next closure
BorrowCall ==
    /\ thread.run = "looping" /\ thread.todo # <<>> /\ thread.stack = <<>>
    /\ thread' = [thread EXCEPT !.stack = <<[cb |-> Head(thread.todo), pc |-> 1]>>,
                                !.todo = Tail(@)]
    /\ UNCHANGED <<mailbox, uidNext, selected, last, deletedOk, raw, shown, headerVars, uiVars>>

\* the closure that runs executes its next statement: borrow_mut panics when a
\* guard is alive; a request is sent and, when it fails, `?` ends the closure
\* (its guard dropped with it) and run returns the error; past its last statement
\* the closure returns to the handler
BorrowStep ==
    /\ thread.run = "looping" /\ thread.stack # <<>>
    /\ LET cb == thread.stack[1].cb
           pc == thread.stack[1].pc
           body == Closure(cb)
       IN  IF pc > Len(body)
           THEN thread' = [thread EXCEPT !.stack = <<>>]
           ELSE CASE body[pc] = "borrow_mut" ->
                         IF thread.held # <<>>
                         THEN thread' = [thread EXCEPT !.run = "panicked"]
                         ELSE thread' = [thread EXCEPT !.held = <<cb>>, !.stack[1].pc = @ + 1]
                  [] body[pc] = "drop" ->
                         thread' = [thread EXCEPT !.held = <<>>, !.stack[1].pc = @ + 1]
                  [] OTHER ->
                         LET sent == Append(thread.wire, [by |-> cb, cmd |-> body[pc]])
                         IN  \/ thread' = [thread EXCEPT !.wire = sent, !.stack[1].pc = @ + 1]
                             \/ thread' = [thread EXCEPT !.wire = sent, !.held = <<>>,
                                                         !.stack = <<>>, !.todo = <<>>,
                                                         !.run = "returned Err"]
    /\ UNCHANGED <<mailbox, uidNext, selected, last, deletedOk, raw, shown, headerVars, uiVars>>

BorrowNext == BorrowKey \/ BorrowCall \/ BorrowStep

BorrowSpec == BorrowInit /\ [][BorrowNext]_vars

(***************************************************************************)
(* Properties of the shared session (BorrowSpec)                           *)
(***************************************************************************)
\* C24: the calls on the one session are serialized. No borrow_mut ever meets a
\* live guard (it would panic), at most one closure runs and at most one guard is
\* alive, held by the closure that runs, which holds it from before its first
\* request until after its last; and on the wire the requests of one closure
\* are never parted by a request of another: each request other than a SELECT
\* directly follows a request of the same closure
C24_SessionCallsSerialized ==
    /\ thread.run # "panicked"
    /\ Len(thread.held) <= 1
    /\ Len(thread.stack) <= 1
    /\ thread.held # <<>> => thread.stack # <<>> /\ thread.held = <<thread.stack[1].cb>>
    /\ thread.stack # <<>> =>
           LET f == thread.stack[1]
           IN  f.pc \in 2..Len(Closure(f.cb)) => thread.held = <<f.cb>>
    /\ \A i, k \in DOMAIN thread.wire :
           (i < k /\ thread.wire[i].by = thread.wire[k].by) =>
               \A j \in i..k : thread.wire[j].by = thread.wire[i].by
    /\ \A i \in DOMAIN thread.wire :
           thread.wire[i].cmd # Select.cmd =>
               i > 1 /\ thread.wire[i - 1].by = thread.wire[i].by

\* the handler of the confirming 'd' is in its second closure: on_delete has sent
\* its three requests and given the guard back, on_refresh holds it and has sent
\* its SELECT
C24_Witness ==
    /\ thread.held = <<"on_refresh">>
    /\ Len(thread.wire) = 4
    /\ \A i \in 1..3 : thread.wire[i].by = "on_delete"
    /\ thread.wire[4] = [by |-> "on_refresh", cmd |-> Select.cmd]
    /\ thread.run = "looping"

(***************************************************************************)
(* Properties of the event loop (UISpec)                                   *)
(***************************************************************************)
\* a key has been handled in this step
KeyHandled == keylog'.n = keylog.n + 1

\* the calls of the handler that were made to a given operation
CallsTo(log, op) == SelectSeq(log.calls, LAMBDA c : c.op = op)

\* C17: fetch_inbox fails as a unit: when its select, its listing or one of its
\* header fetches fails, the refresh that called it returns the error, run returns
\* it, and the list on screen is the one that was there before: no partial list
C17_FailedSyncShowsNothingPartial ==
    [][(KeyHandled /\ \E i \in DOMAIN keylog'.calls :
                          /\ keylog'.calls[i].op = "fetch_inbox"
                          /\ ~keylog'.calls[i].ok)
          => /\ app'.items = app.items
             /\ app'.selected = app.selected
             /\ keylog'.run = "returned Err"]_vars

\* C17 witness: 'm' with two messages listed, the first header fetch answered and
\* the second failed; the list shown is still the old one
C17_Witness ==
    /\ keylog.key = "m"
    /\ keylog.mode = "Inbox"
    /\ Len(keylog.calls) = 1
    /\ keylog.calls[1].op = "fetch_inbox"
    /\ ~keylog.calls[1].ok
    /\ keylog.calls[1].val = "header"
    /\ Len(keylog.calls[1].reqs) = 4
    /\ Len(app.items) = 1
    /\ keylog.run = "returned Err"

\* C18: nothing is retried: a call that failed is the last call its key handler
\* made and run returns the error; within a call no request is sent twice, and a
\* failed call is not followed by another call to the same operation
C18_NoRetries ==
    /\ \A i \in DOMAIN keylog.calls :
           /\ ~keylog.calls[i].ok => (i = Len(keylog.calls) /\ keylog.run = "returned Err")
           /\ \A j, k \in DOMAIN keylog.calls[i].reqs :
                  keylog.calls[i].reqs[j] = keylog.calls[i].reqs[k] => j = k
    /\ \A op \in {"fetch_inbox", "fetch_headers", "fetch_body", "delete_message", "on_send"} :
           Len(CallsTo(keylog, op)) <= 1

\* C18 witness: a view whose header fetch succeeded and whose body fetch failed
C18_Witness ==
    /\ keylog.key = "v"
    /\ Len(keylog.calls) = 2
    /\ keylog.calls[1].op = "fetch_headers" /\ keylog.calls[1].ok
    /\ keylog.calls[2].op = "fetch_body" /\ ~keylog.calls[2].ok
    /\ keylog.calls[2].reqs = <<FetchRfc822(keylog.calls[2].uid)>>
    /\ keylog.run = "returned Err"
    /\ app.mode = "Inbox"

\* C19: in ConfirmDelete, Esc or any key other than 'd' leads back to Inbox and
\* does nothing else: no callback is called, the folder, the list, the highlighted
\* row and inbox_count are as they were
C19_CancelHasNoSideEffects ==
    [][(KeyHandled /\ app.mode = "ConfirmDelete" /\ keylog'.key # "d")
          => /\ app'.mode = "Inbox"
             /\ keylog'.calls = <<>>
             /\ keylog'.run = "looping"
             /\ mailbox' = mailbox
             /\ app'.items = app.items
             /\ app'.selected = app.selected
             /\ app'.inbox_count = app.inbox_count]_vars

\* C19 witness: the second row highlighted, 'd', then a key that is not 'd'
C19_Witness ==
    /\ keylog.mode = "ConfirmDelete"
    /\ keylog.key = "q"
    /\ app.mode = "Inbox"
    /\ app.selected = 1
    /\ Len(app.items) = 2
    /\ keylog.run = "looping"

\* C20: a delete goes through Inbox 'd' then ConfirmDelete 'd' only: no other key
\* or mode calls on_delete; the confirming 'd' calls on_delete once for the
\* highlighted message and, if and only if it succeeded, on_refresh once with
\* inbox_count, and after a successful refresh the UI is in Inbox on the first row
C20_DeleteOnlyByConfirmation ==
    /\ CallsTo(keylog, "delete_message") # <<>> =>
           keylog.key = "d" /\ keylog.mode = "ConfirmDelete"
    /\ (keylog.key = "d" /\ keylog.mode = "ConfirmDelete") =>
           /\ Len(CallsTo(keylog, "delete_message")) = 1
           /\ keylog.calls[1].op = "delete_message"
           /\ ~keylog.calls[1].ok => Len(keylog.calls) = 1
           /\ keylog.calls[1].ok =>
                  /\ Len(keylog.calls) = 2
                  /\ keylog.calls[2].op = "fetch_inbox"
                  /\ keylog.calls[2].count = app.inbox_count
                  /\ keylog.calls[2].ok =>
                         app.mode = "Inbox" /\ app.selected = 0 /\ keylog.run = "looping"

\* C21: 'v' in Inbox calls fetch_headers and then fetch_body for the UID of the
\* highlighted row, the body only when the header call has succeeded, and with
\* both successful the mode becomes View with view_scroll 0; in View no key makes
\* a call, Esc leads to Inbox and is the only key that leaves View, and Up and
\* Down change nothing but view_scroll
C21_ViewFetchesThenShows ==
    [][KeyHandled =>
           /\ (app.mode = "Inbox" /\ keylog'.key = "v") =>
                  LET calls == keylog'.calls
                  IN  /\ Len(calls) \in 1..2
                      /\ calls[1].op = "fetch_headers"
                      /\ InBounds /\ calls[1].uid = SelectedUid
                      /\ Len(calls) = 2 <=> calls[1].ok
                      /\ Len(calls) = 2 =>
                             calls[2].op = "fetch_body" /\ calls[2].uid = SelectedUid
                      /\ (\A i \in DOMAIN calls : calls[i].ok) =>
                             app'.mode = "View" /\ app'.view_scroll = 0
                      /\ app'.mode \in {"Inbox", "View"}
           /\ app.mode = "View" =>
                  /\ keylog'.calls = <<>>
                  /\ app'.mode = IF keylog'.key = "Esc" THEN "Inbox" ELSE "View"
                  /\ keylog'.key \in {"Up", "Down"} =>
                         app' = [app EXCEPT !.view_scroll = app'.view_scroll]]_vars

\* C22: nothing is cached. A 'v' that shows a message has sent, in that very
\* handler, SELECT and the header fetch and then the RFC822 fetch for the
\* highlighted UID, also when a message had been viewed before, and the text shown
\* is made of what those two calls returned; a load-more or a re-sync after a
\* delete that fills the list has sent SELECT and the full FETCH 1:* listing, and
\* the rows are made of the summaries that call returned
C22_NothingCached ==
    [][KeyHandled =>
           LET calls == keylog'.calls
           IN  /\ (app.mode = "Inbox" /\ keylog'.key = "v" /\ app'.mode = "View") =>
                      /\ Len(calls) = 2
                      /\ calls[1].op = "fetch_headers" /\ calls[1].uid = SelectedUid
                      /\ calls[1].reqs = <<Select, FetchFromSubjectDate(SelectedUid)>>
                      /\ calls[2].op = "fetch_body" /\ calls[2].uid = SelectedUid
                      /\ calls[2].reqs = <<FetchRfc822(SelectedUid)>>
                      /\ calls[1].ok /\ calls[2].ok
                      /\ app'.view_buffer = Combined(calls[1].val, calls[2].val)
               /\ (keylog'.run = "looping"
                       /\ \/ app.mode = "Inbox" /\ keylog'.key = "m"
                          \/ app.mode = "ConfirmDelete" /\ keylog'.key = "d") =>
                      LET c == calls[Len(calls)]
                      IN  /\ c.op = "fetch_inbox" /\ c.ok
                          /\ SubSeq(c.reqs, 1, 2) = <<Select, FetchKeys>>
                          /\ app'.items = ItemsOf(c.list)
               /\ app'.view_buffer # app.view_buffer => CallsTo(keylog', "fetch_body") # <<>>
               /\ app'.items # app.items => CallsTo(keylog', "fetch_inbox") # <<>>]_vars

\* the third key of the run is a 'v' on the one row of the list, whose message
\* another client has removed since the list was made: what is shown is the
\* answer of this request, empty, not the message as it was listed or viewed
C22_Witness ==
    /\ keylog.n = 3 /\ keylog.key = "v" /\ keylog.mode = "Inbox"
    /\ app.mode = "View"
    /\ Len(app.items) = 1 /\ app.items[1][1] = 1
    /\ ~Present(mailbox, 1)
    /\ Len(keylog.calls) = 2
    /\ app.view_buffer = Combined(EmptyHeaders, <<>>)

\* C25: in Compose, Esc leads to Inbox without a call of on_send; Ctrl+S calls
\* on_send once, with the To and Subject fields and the text of the Body as they
\* are, and leads to Inbox when the call succeeds (run returns the error when it
\* fails); every other key stays in Compose and calls nothing; no key in Compose
\* makes a call on the IMAP session or changes the folder, and on_send is called
\* from no other mode
C25_ComposeReturnsToInbox ==
    [][KeyHandled =>
           LET calls == keylog'.calls
           IN  /\ app.mode # "Compose" => CallsTo(keylog', "on_send") = <<>>
               /\ app.mode = "Compose" =>
                      /\ \A i \in DOMAIN calls : calls[i].op = "on_send"
                      /\ mailbox' = mailbox
                      /\ keylog'.key = "Esc" => calls = <<>> /\ app'.mode = "Inbox"
                      /\ keylog'.key = "Ctrl+S" =>
                             /\ Len(calls) = 1
                             /\ calls[1].val = <<app.compose_to, app.compose_subject,
                                                 JoinLines(app.compose_body)>>
                             /\ IF calls[1].ok
                                THEN app'.mode = "Inbox" /\ keylog'.run = "looping"
                                ELSE keylog'.run = "returned Err"
                      /\ keylog'.key \notin {"Esc", "Ctrl+S"} =>
                             calls = <<>> /\ app'.mode = "Compose"]_vars

\* a reply was opened and Ctrl+S pressed: on_send got the From value of the
\* message, the "Re: " subject and the empty body, and the program is back in Inbox
C25_Witness ==
    /\ keylog.key = "Ctrl+S" /\ keylog.mode = "Compose"
    /\ Len(keylog.calls) = 1
    /\ keylog.calls[1].ok
    /\ keylog.calls[1].val = << <<"J", " ", "<", "j", "@", "x", ">">>,
                                <<"R", "e", ":", " ", "s">>, <<>> >>
    /\ app.mode = "Inbox"
    /\ app.tooltip = "Sent!"

\* C30: whatever new mail and other clients have done to the folder since the
\* list was made, the confirming 'd' sends its UID STORE for the UID of the
\* highlighted row; that UID names the message the row was made from or no message
\* of the folder; and the messages the handler removes are that one and those
\* that carried \Deleted already. No other key handler changes the folder
C30_DeleteHitsOnlyWhatWasShown ==
    [][KeyHandled =>
           IF app.mode = "ConfirmDelete" /\ keylog'.key = "d"
           THEN CallsTo(keylog', "delete_message") # <<>> =>
                    LET del == keylog'.calls[1]
                    IN  /\ del.op = "delete_message" /\ del.uid = SelectedUid
                        /\ \A i \in DOMAIN del.reqs :
                               del.reqs[i] \in {Select, StoreDeleted(SelectedUid), Expunge}
                        /\ \A m \in mailbox :
                               m.uid = SelectedUid =>
                                   app.items[app.selected + 1]
                                       = ItemOf([uid |-> m.uid,
                                                 from |-> SummaryFromOf[
                                                     HeaderFieldsOf[m.uid][{FromTag, DateTag}]],
                                                 date |-> m.date])
                        /\ \A m \in mailbox :
                               ~Present(mailbox', m.uid) => m.uid = SelectedUid \/ m.flagged
                        /\ \A m \in mailbox' : \E x \in mailbox : x.uid = m.uid /\ x.date = m.date
           ELSE mailbox' = mailbox]_vars

\* message 1 was listed alone and its delete has been confirmed and has returned
\* Ok, after another client had touched the folder and message 2 had arrived:
\* message 2 is still there, unflagged, and is the one row of the new list
C30_Witness ==
    /\ keylog.key = "d" /\ keylog.mode = "ConfirmDelete" /\ keylog.n = 2
    /\ keylog.changes = 1
    /\ Len(keylog.calls) = 2
    /\ keylog.calls[1].op = "delete_message" /\ keylog.calls[1].ok /\ keylog.calls[1].uid = 1
    /\ uidNext = 3
    /\ \E m \in mailbox : mailbox = {m} /\ m.uid = 2 /\ ~m.flagged
    /\ Len(app.items) = 1 /\ app.items[1][1] = 2

\* C31: ConfirmDelete is entered only by 'd' in Inbox, which leaves the list and
\* the highlight as they are; while the mode stays ConfirmDelete nothing of App
\* changes; so the confirming 'd' directly follows that first 'd', and the UID it
\* passes to on_delete is the UID of the row highlighted then and now
C31_ConfirmedUidIsTheOneChosen ==
    [][/\ (app.mode = "ConfirmDelete" /\ app'.mode = "ConfirmDelete") => app' = app
       /\ (KeyHandled /\ app.mode # "ConfirmDelete" /\ app'.mode = "ConfirmDelete") =>
              /\ app.mode = "Inbox" /\ keylog'.key = "d"
              /\ app'.items = app.items /\ app'.selected = app.selected
       /\ (KeyHandled /\ app.mode = "ConfirmDelete"
               /\ CallsTo(keylog', "delete_message") # <<>>) =>
              /\ keylog.key = "d" /\ keylog.mode = "Inbox"
              /\ keylog'.key = "d"
              /\ Len(CallsTo(keylog', "delete_message")) = 1
              /\ keylog'.calls[1].op = "delete_message"
              /\ keylog'.calls[1].uid = app.items[app.selected + 1][1]]_vars

\* Down, 'd', 'd' on a list of two rows: on_delete was given the UID of the second
\* row (its expunge failed, so the list is still the one the choice was made on)
C31_Witness ==
    /\ keylog.n = 3 /\ keylog.key = "d" /\ keylog.mode = "ConfirmDelete"
    /\ Len(app.items) = 2 /\ app.selected = 1
    /\ Len(keylog.calls) = 1
    /\ keylog.calls[1].op = "delete_message" /\ ~keylog.calls[1].ok
    /\ keylog.calls[1].val = "expunge"
    /\ keylog.calls[1].uid = app.items[2][1]
    /\ keylog.calls[1].uid # app.items[1][1]

\* the highlight of a list is on one of its rows, or at 0 when there is none
SelectionOk(a) == IF a.items = <<>> THEN a.selected = 0 ELSE a.selected < Len(a.items)

\* C32: in every state of the event loop either the list is empty and selected is
\* 0, or selected < len(items); Down in Inbox moves the highlight to the next row
\* and from the last row to the first, Up moves it to the row before and stays at
\* 0; and every refresh that fills the list ('m', the re-sync after a delete)
\* puts it at 0
C32_SelectionInvariant ==
    [][/\ SelectionOk(app) /\ SelectionOk(app')
       /\ (KeyHandled /\ app.mode = "Inbox" /\ keylog'.key = "Down") =>
              /\ app'.items = app.items
              /\ app'.selected = IF app.items = <<>> THEN 0
                                 ELSE IF app.selected = Len(app.items) - 1 THEN 0
                                 ELSE app.selected + 1
       /\ (KeyHandled /\ app.mode = "Inbox" /\ keylog'.key = "Up") =>
              /\ app'.items = app.items
              /\ app'.selected = IF app.selected = 0 THEN 0 ELSE app.selected - 1
       /\ (KeyHandled /\ CallsTo(keylog', "fetch_inbox") # <<>> /\ keylog'.run = "looping") =>
              app'.selected = 0
       /\ app'.items # app.items => app'.selected = 0]_vars

\* the second key of the run is a Down that has taken the highlight from the last
\* of two rows back to the first
C32_Witness ==
    /\ keylog.n = 2 /\ keylog.key = "Down" /\ keylog.mode = "Inbox"
    /\ Len(app.items) = 2
    /\ app.selected = 0

\* C33: every self.items[self.selected] the handlers evaluate ('v', 'r', the
\* confirming 'd') is within the list, an empty list included: no sequence of keys
\* makes the event loop panic
C33_NoIndexPanic == keylog.run # "panicked"

\* C34: whenever run has returned, with Ok after 'q' or with the error of a
\* callback, of drawing or of reading an event, the terminal has been restored:
\* raw mode is off and the alternate screen has been left
C34_TerminalRestoredOnReturn ==
    keylog.run \in {"returned Ok", "returned Err"} =>
        terminal = [raw |-> FALSE, alternate |-> FALSE]

\* C35: run returns Ok only from the 'q' of Inbox. In View 'q' changes nothing,
\* in ConfirmDelete it cancels to Inbox, in Compose it is appended to the field
\* that has the focus, and in all three the loop goes on; and in View, Compose and
\* ConfirmDelete Esc can be pressed and leads to Inbox without any call, so Inbox
\* and with it 'q' stay within reach by keys that send no request
C35_QuitOnlyFromInbox ==
    [][/\ keylog'.run = "returned Ok" =>
              keylog'.key = "q" /\ keylog'.mode = "Inbox"
       /\ (KeyHandled /\ keylog'.key = "q" /\ app.mode # "Inbox") =>
              /\ keylog'.run = "looping" /\ keylog'.calls = <<>>
              /\ app.mode = "View" => app' = app
              /\ app.mode = "ConfirmDelete" => app'.mode = "Inbox"
              /\ app.mode = "Compose" =>
                     /\ app'.mode = "Compose"
                     /\ app.compose_field = "To" =>
                            app'.compose_to = Append(app.compose_to, "q")
                     /\ app.compose_field = "Subject" =>
                            app'.compose_subject = Append(app.compose_subject, "q")
                     /\ app.compose_field = "Body" =>
                            JoinLines(app'.compose_body)
                                = Append(JoinLines(app.compose_body), "q")
       /\ (KeyHandled /\ keylog'.key = "Esc" /\ app.mode # "Inbox") =>
              /\ app'.mode = "Inbox" /\ keylog'.run = "looping" /\ keylog'.calls = <<>>
       /\ (keylog.run = "looping" /\ keylog.n < MaxKeys) =>
              CASE app.mode = "View" -> ENABLED ViewEsc
                [] app.mode = "Compose" -> ENABLED ComposeEsc
                [] app.mode = "ConfirmDelete" -> ENABLED ConfirmDeleteEsc
                [] OTHER -> ENABLED InboxQuit]_vars

\* 'c', then 'q' typed into the To field: the letter is in the field and the loop
\* goes on in Compose
C35_Witness ==
    /\ keylog.n = 2 /\ keylog.key = "q" /\ keylog.mode = "Compose"
    /\ keylog.run = "looping"
    /\ app.mode = "Compose"
    /\ app.compose_to = <<"q">>

\* C36: after a successful 'm' the status line reads "Successfully loaded N
\* messages" with N the number of rows now in the list; the list never has more
\* rows than inbox_count, which starts at 20 and only grows in steps of 10
C36_LoadedCountIsListLength ==
    /\ (keylog.key = "m" /\ keylog.mode = "Inbox" /\ keylog.run = "looping") =>
           app.tooltip = "Successfully loaded " \o ToString(Len(app.items)) \o " messages"
    /\ Len(app.items) <= app.inbox_count
    /\ app.inbox_count >= InitialInboxCount
    /\ (app.inbox_count - InitialInboxCount) % LoadMoreStep = 0

\* the subject a reply gets: kept when it starts with "re:" in any letter case,
\* else with "Re: " put before it
ReplySubject(subject) ==
    IF StartsWith(ToLowercase(subject), <<"r", "e", ":">>) THEN subject
    ELSE <<"R", "e", ":", " ">> \o subject

\* C37: 'r' in Inbox calls on_view once for the highlighted UID (one fetch_headers,
\* then one fetch_body) and, when that succeeds, enters Compose with To the From
\* value of the message, an empty Body that has the focus, and Subject the
\* message's subject if it starts with "re:" in any letter case and "Re: " before
\* it otherwise; the subject so made is a reply subject itself, which a further
\* reply would leave as it is
C37_ReplyPrefillsOnce ==
    [][(KeyHandled /\ app.mode = "Inbox" /\ keylog'.key = "r") =>
           LET calls == keylog'.calls
           IN  /\ Len(calls) \in 1..2
               /\ calls[1].op = "fetch_headers"
               /\ calls[1].uid = app.items[app.selected + 1][1]
               /\ Len(calls) = 2 <=> calls[1].ok
               /\ Len(calls) = 2 =>
                      calls[2].op = "fetch_body" /\ calls[2].uid = calls[1].uid
               /\ IF \A i \in DOMAIN calls : calls[i].ok
                  THEN /\ app'.mode = "Compose"
                       /\ app'.compose_to = calls[1].val.from
                       /\ app'.compose_subject = ReplySubject(calls[1].val.subject)
                       /\ ReplySubject(app'.compose_subject) = app'.compose_subject
                       /\ JoinLines(app'.compose_body) = <<>>
                       /\ app'.compose_field = "Body"
                  ELSE app' = app /\ keylog'.run = "returned Err"]_vars

(***************************************************************************)
(* Properties of the header extraction (HeaderSpec)                        *)
(***************************************************************************)
\* the lines of the block, and those that start with "<name>:" in any letter case
BlockLines == SplitCRLF(header_block)

IsFieldLine(line, name) ==
    /\ Len(line) > Len(name)
    /\ \A i \in DOMAIN name : LowerChar(line[i]) = name[i]
    /\ line[Len(name) + 1] = ":"

FieldLines(name) == SelectSeq(BlockLines, LAMBDA line : IsFieldLine(line, name))

\* what follows "<name>:" on a line, without the white space at either end
TrimmedValue(line, name) ==
    LET rest == SubSeq(line, Len(name) + 2, Len(line))
        inked == {i \in DOMAIN rest : rest[i] \notin WhiteSpace}
    IN  IF inked = {} THEN <<>>
        ELSE SubSeq(rest, CHOOSE a \in inked : \A i \in inked : a <= i,
                          CHOOSE b \in inked : \A i \in inked : b >= i)

\* the sender named by a From value: between the first "<" and the first ">" after
\* it; everything after the "<" when no ">" follows; the value itself without "<"
BracketRule(v) ==
    LET opens == {i \in DOMAIN v : v[i] = "<"}
    IN  IF opens = {} THEN v
        ELSE LET open == CHOOSE i \in opens : \A j \in opens : i <= j
                 closes == {j \in DOMAIN v : j > open /\ v[j] = ">"}
             IN  IF closes = {} THEN SubSeq(v, open + 1, Len(v))
                 ELSE SubSeq(v, open + 1, (CHOOSE j \in closes : \A k \in closes : j <= k) - 1)

NameFrom == <<"f", "r", "o", "m">>
NameSubject == <<"s", "u", "b", "j", "e", "c", "t">>
NameDate == <<"d", "a", "t", "e">>

Extracted == Unwrap(extracted)
LastOf(s) == s[Len(s)]

\* C13: the sender of a summary is the bare address of the trimmed From value: the
\* text between the first "<" and the first ">" after it, everything after the "<"
\* when it is not closed, the whole value when it has no "<"; "J <j@x>", "J <j@x"
\* and "j@x" all give "j@x"
C13_SummarySenderIsBareAddress ==
    (extracted # None /\ Len(FieldLines(NameFrom)) = 1) =>
        LET line == FieldLines(NameFrom)[1]
            v == TrimmedValue(line, NameFrom)
        IN  /\ Extracted.from_line = BracketRule(v)
            /\ v \in { <<"J", " ", "<", "j", "@", "x", ">">>,
                        <<"J", " ", "<", "j", "@", "x">>,
                        <<"j", "@", "x">> }
                   => Extracted.from_line = <<"j", "@", "x">>

\* C13 witness: a From value with a display name and an unterminated bracket
C13_Witness ==
    /\ extracted # None
    /\ FieldLines(NameFrom) = << <<"F", "R", "O", "M", ":", " ", "J", " ", "<", "j", "@", "x">> >>
    /\ Extracted.from_line = <<"j", "@", "x">>
    /\ Extracted.detail.val.from = <<"J", " ", "<", "j", "@", "x">>

\* C14: a field with no line of its own in the block comes out as the empty string,
\* in the triple of fetch_headers and in the sender of fetch_inbox, and the
\* extraction is a success whatever the block holds
C14_AbsentFieldIsEmpty ==
    extracted # None =>
        /\ Extracted.detail.ok
        /\ FieldLines(NameFrom) = <<>> =>
               Extracted.detail.val.from = <<>> /\ Extracted.from_line = <<>>
        /\ FieldLines(NameSubject) = <<>> => Extracted.detail.val.subject = <<>>
        /\ FieldLines(NameDate) = <<>> => Extracted.detail.val.date = <<>>

\* C14 witness: a block with a From line and a line that is no field, and neither a
\* Subject nor a Date line
C14_Witness ==
    /\ extracted # None
    /\ Len(BlockLines) >= 2
    /\ Len(FieldLines(NameFrom)) = 1
    /\ FieldLines(NameSubject) = <<>>
    /\ FieldLines(NameDate) = <<>>
    /\ Extracted.detail = Ok([from |-> <<"j", "@", "x">>, subject |-> <<>>, date |-> <<>>])

\* C15: when several lines start with the same field name, the value of the field
\* is the trimmed remainder of the last of them; a line that does not itself start
\* with the name gives nothing to any field
C15_LastDuplicateWins ==
    extracted # None =>
        /\ FieldLines(NameFrom) # <<>> =>
               /\ Extracted.detail.val.from = TrimmedValue(LastOf(FieldLines(NameFrom)), NameFrom)
               /\ Extracted.from_line =
                      BracketRule(TrimmedValue(LastOf(FieldLines(NameFrom)), NameFrom))
        /\ FieldLines(NameSubject) # <<>> =>
               Extracted.detail.val.subject =
                   TrimmedValue(LastOf(FieldLines(NameSubject)), NameSubject)
        /\ FieldLines(NameDate) # <<>> =>
               Extracted.detail.val.date = TrimmedValue(LastOf(FieldLines(NameDate)), NameDate)

\* C15 witness: two From lines with different values followed by a continuation
\* line that looks like a third
C15_Witness ==
    /\ extracted # None
    /\ BlockLines = << <<"F", "r", "o", "m", ":", " ", "J", " ", "<", "j", "@", "x", ">">>,
                       <<"F", "r", "o", "m", ":", " ", "a", ">", "b", "<", "c", ">", "d", " ">>,
                       <<" ", "F", "r", "o", "m", ":", " ", "z">>,
                       <<>>, <<>> >>
    /\ Extracted.detail.val.from = <<"a", ">", "b", "<", "c", ">", "d">>
    /\ Extracted.from_line = <<"c">>

(***************************************************************************)
(* Properties of fetch_inbox (Spec)                                        *)
(***************************************************************************)
SyncReturned == last.op = "fetch_inbox" /\ last.ok

\* the position of a UID in the listing as fetch_inbox kept it (0: not listed)
KeyIndex(uid) ==
    IF \E i \in DOMAIN last.keys : last.keys[i].uid = uid
    THEN CHOOSE i \in DOMAIN last.keys : last.keys[i].uid = uid
    ELSE 0

\* C1: the list fetch_inbox returns is in non-increasing received-date order, each
\* summary carrying the date the listing gave for its UID: the order of the
\* descending sort is the order returned
C1_ListNewestFirst ==
    SyncReturned =>
        /\ \A i, j \in DOMAIN last.list : i < j => last.list[i].date >= last.list[j].date
        /\ \A i \in DOMAIN last.list :
               \E k \in DOMAIN last.keys :
                   /\ last.keys[k].uid = last.list[i].uid
                   /\ last.keys[k].date = last.list[i].date

\* C1 witness: the server listed an older message before a newer one and the list
\* returned has the newer one first
C1_Witness ==
    /\ SyncReturned
    /\ Len(last.keys) >= 2
    /\ last.keys[1].date < last.keys[2].date
    /\ Len(last.list) >= 2
    /\ last.list[1].uid = last.keys[2].uid
    /\ last.list[2].uid = last.keys[1].uid
    /\ last.list[1].date > last.list[2].date

\* C2: a successful fetch_inbox returns exactly min(count, totalMessages) summaries,
\* none of them for the same UID twice
C2_ReturnsMinCountTotal ==
    SyncReturned =>
        /\ Len(last.list) = Min(last.count, Cardinality(mailbox))
        /\ \A i, j \in DOMAIN last.list : last.list[i].uid = last.list[j].uid => i = j

\* C4: once delete_message(id) has returned Ok, no later fetch_inbox returns a
\* summary for id
C4_DeletedNeverListed ==
    SyncReturned => \A i \in DOMAIN last.list : last.list[i].uid \notin deletedOk

\* C4 witness: a sync after a successful delete that still lists another message
C4_Witness ==
    /\ SyncReturned
    /\ deletedOk # {}
    /\ Len(last.list) >= 1
    /\ \E u \in deletedOk : u < last.list[1].uid

\* C5: a delete_message that returns an error leaves the folder as it was: no
\* message removed, no message newly flagged
C5_FailedDeleteChangesNothing ==
    [][(last'.op = "delete_message" /\ ~last'.ok) => mailbox' = mailbox]_vars

\* C7: every operation that needs the folder (fetch_inbox, fetch_headers,
\* fetch_body, delete_message) issues SELECT INBOX before its own request
C7_SelectsFirst ==
    last.op \in {"fetch_inbox", "fetch_headers", "fetch_body", "delete_message"} =>
        /\ last.reqs # <<>>
        /\ last.reqs[1] = Select

\* a call in which every message of the folder was listed and every retained one
\* gave its summary
Complete(call) ==
    /\ call.ok
    /\ Len(call.keys) = Cardinality(mailbox)
    /\ Len(call.list) = Min(call.count, Cardinality(mailbox))

\* C8: fetch_inbox is idempotent on an unchanged mailbox: right after a call has
\* returned, a second call with the same count returns the identical sequence of
\* summaries (compared over calls in which nothing was left out)
C8_SyncIdempotent ==
    (SyncReturned /\ Complete(last)) =>
        \A again \in FetchInboxOutcomes(mailbox, last.count) :
            Complete(again) => again.list = last.list

\* C9: messages with equal received dates appear in the list in the order in which
\* the server enumerated them, and of several such messages the ones enumerated
\* first are the ones that survive the truncation to count
C9_TiesKeepListingOrder ==
    SyncReturned =>
        /\ \A i, j \in DOMAIN last.list :
               (i < j /\ last.list[i].date = last.list[j].date)
                   => KeyIndex(last.list[i].uid) < KeyIndex(last.list[j].uid)
        /\ Complete(last) =>
               \A i \in DOMAIN last.list, k \in DOMAIN last.keys :
                   (last.keys[k].date = last.list[i].date
                        /\ \A j \in DOMAIN last.list : last.list[j].uid # last.keys[k].uid)
                       => KeyIndex(last.list[i].uid) < k

\* the key listing of the call came back (the call succeeded, or failed later on)
ListingReturned == last.op = "fetch_inbox" /\ (last.ok \/ last.val = "header")

\* C12: when the key listing yields no (uid, date) pair, fetch_inbox returns Ok with
\* an empty list and has issued nothing after the listing: no per-UID header fetch
C12_EmptyInboxSyncsToEmptyList ==
    (ListingReturned /\ last.keys = <<>>) =>
        /\ last.ok
        /\ last.list = <<>>
        /\ last.reqs = <<Select, FetchKeys>>

\* C12 witness: the last message has been deleted and a sync asking for summaries
\* finds the folder empty
C12_Witness ==
    /\ ListingReturned
    /\ last.keys = <<>>
    /\ last.count > 0
    /\ mailbox = {}
    /\ deletedOk # {}
    /\ last.ok
    /\ last.list = <<>>

\* C16: a fetch_headers or fetch_body for a UID that names no message of the
\* folder (the server answers the request with no data for it) returns an error,
\* not a success payload
C16_NoDataIsAnError ==
    (last.op \in {"fetch_headers", "fetch_body"} /\ ~Present(mailbox, last.uid)) => ~last.ok

\* C23: a delete_message that returns Ok purges every message that carries the
\* \Deleted flag at that moment, not only its own: afterwards no message of the
\* folder is flagged, and every message flagged before the call is gone, as is
\* the message the call was given
C23_DeletePurgesEveryFlagged ==
    [][(Idle /\ last'.op = "delete_message" /\ last'.ok) =>
           /\ \A m \in mailbox' : ~m.flagged
           /\ \A m \in mailbox : m.flagged => ~Present(mailbox', m.uid)
           /\ ~Present(mailbox', last'.uid)
           /\ mailbox' \subseteq mailbox]_vars

\* message 2 has just been deleted and message 1 went with it, though no delete
\* of message 1 ever returned Ok: it only carried the flag
C23_Witness ==
    /\ last.op = "delete_message" /\ last.ok /\ last.uid = 2
    /\ deletedOk = {2}
    /\ uidNext = 3
    /\ mailbox = {}

\* C26: the requests of a delete_message call are a beginning of the fixed
\* sequence SELECT INBOX, UID STORE +FLAGS (\Deleted) for the given UID, EXPUNGE:
\* all three when it returns Ok, only the select when the select failed, and
\* select and store with no expunge when the store failed
C26_DeleteRequestOrder ==
    last.op = "delete_message" =>
        LET full == <<Select, StoreDeleted(last.uid), Expunge>>
            n == Len(last.reqs)
        IN  /\ n \in 1..3
            /\ last.reqs = SubSeq(full, 1, n)
            /\ last.ok => n = 3
            /\ ~last.ok => /\ last.val \in {"select", "store", "expunge"}
                           /\ last.val = "select" <=> n = 1
                           /\ last.val = "store" <=> n = 2
                           /\ last.val = "expunge" <=> n = 3

\* the store of a delete has failed while another message carries the flag: the
\* call has sent its select and its store and nothing else
C26_Witness ==
    /\ last.op = "delete_message" /\ ~last.ok /\ last.val = "store"
    /\ last.reqs = <<Select, StoreDeleted(2)>>
    /\ \E m \in mailbox : m.flagged /\ m.uid = 1

\* the per-UID header fetches of the call, in the order they were sent
HeaderFetches == SubSeq(last.reqs, 3, Len(last.reqs))

\* C27: a fetch_inbox call that got its listing has sent SELECT, then the one
\* FETCH 1:* listing, then one FROM/DATE header fetch per retained UID and nothing
\* else: the fetched UIDs are distinct UIDs of the listing, sent in non-increasing
\* date order, no listed UID left out is newer than a fetched one, and a call that
\* returns Ok has sent min(count, listed pairs) of them (a call ended by a failed
\* round trip has sent at least one and no more than that)
C27_OneListingOneFetchPerRetained ==
    (last.op = "fetch_inbox" /\ (last.ok \/ last.val = "header")) =>
        LET n == Min(last.count, Len(last.keys))
            fetches == HeaderFetches
        IN  /\ last.reqs[1] = Select
            /\ last.reqs[2] = FetchKeys
            /\ \A i \in DOMAIN fetches :
                   /\ fetches[i] = FetchFromDate(fetches[i].uid)
                   /\ KeyIndex(fetches[i].uid) # 0
            /\ \A i, j \in DOMAIN fetches :
                   i < j => /\ fetches[i].uid # fetches[j].uid
                            /\ last.keys[KeyIndex(fetches[i].uid)].date
                                   >= last.keys[KeyIndex(fetches[j].uid)].date
            /\ \A k \in DOMAIN last.keys :
                   (\A i \in DOMAIN fetches : fetches[i].uid # last.keys[k].uid) =>
                       \A i \in DOMAIN fetches :
                           last.keys[KeyIndex(fetches[i].uid)].date >= last.keys[k].date
            /\ last.ok => Len(fetches) = n
            /\ ~last.ok => Len(fetches) \in 1..n

\* two messages are listed, the older one first, and fetch_inbox(1) has fetched
\* the header of the newer one only
C27_Witness ==
    /\ SyncReturned
    /\ last.count = 1
    /\ Len(last.keys) = 2
    /\ last.keys[1].date < last.keys[2].date
    /\ last.reqs = <<Select, FetchKeys, FetchFromDate(last.keys[2].uid)>>

\* C28: every summary of the list fetch_inbox returns carries a (uid, date) pair
\* of the listing of that same call, its sender is what the extraction gives for
\* the FROM/DATE header block of that same UID, which the call has fetched, and no
\* UID is in the list twice
C28_SummariesMatchListing ==
    SyncReturned =>
        /\ \A i \in DOMAIN last.list :
               LET ms == last.list[i]
               IN  /\ \E k \in DOMAIN last.keys :
                          last.keys[k] = [uid |-> ms.uid, date |-> ms.date]
                   /\ \E r \in DOMAIN last.reqs : last.reqs[r] = FetchFromDate(ms.uid)
                   /\ ms.from = SummaryFrom(Utf8Lossy(HeaderFields(ms.uid, {FromTag, DateTag})))
        /\ \A i, j \in DOMAIN last.list : i < j => last.list[i].uid # last.list[j].uid

\* two summaries have been returned and each has the sender of its own message
C28_Witness ==
    /\ SyncReturned
    /\ Len(last.list) = 2
    /\ last.list[1].uid # last.list[2].uid
    /\ last.list[1].from # last.list[2].from
    /\ \A i \in 1..2 : last.list[i].from = <<"j", "@", "x">> <=> last.list[i].uid = 1

\* C29: against an unchanged mailbox the list of fetch_inbox(c1) is a beginning of
\* the list of fetch_inbox(c2) for every c2 >= c1: right after a call has
\* returned, a call with the same or a greater count returns a list that starts
\* with the one just returned (compared over calls in which nothing was left out)
C29_PaginationPrefixMonotone ==
    (SyncReturned /\ Complete(last)) =>
        \A c2 \in last.count..MaxCount :
            \A again \in FetchInboxOutcomes(mailbox, c2) :
                Complete(again) => StartsWith(again.list, last.list)

(***************************************************************************)
(* Properties of fetch_body's content resolution (BodySpec)                *)
(***************************************************************************)
RECURSIVE PreOrder(_)
\* the parts of a tree in depth-first pre-order
PreOrder(part) ==
    <<part>> \o Concat([i \in DOMAIN part.subparts |-> PreOrder(part.subparts[i])])

\* fetch_body has returned for a response that carried the message
BodyServed ==
    /\ shown # None
    /\ Unwrap(shown).resp # <<>>
    /\ IsSome(Unwrap(shown).resp[1].body)

Out == Unwrap(shown).out

PartsOfType(mimetype) ==
    IF raw.parsed.ok
    THEN SelectSeq(PreOrder(raw.parsed.val), LAMBDA p : AsciiLower(p.ctype) = mimetype)
    ELSE <<>>

\* C3: when the tree holds a text/plain part (content type in any letter case)
\* whose content decodes, fetch_body returns the content of the first such part in
\* pre-order, whatever text/html parts the tree holds and wherever: not a
\* rendering of html, not the raw bytes
C3_PlainBeatsHtml ==
    (BodyServed /\ PartsOfType("text/plain") # <<>>
        /\ Head(PartsOfType("text/plain")).body.decodes) =>
        /\ Out = Ok(Head(PartsOfType("text/plain")).body.text)
        /\ Out.val # Utf8Lossy(raw.bytes)
        /\ \A i \in DOMAIN PartsOfType("text/html") :
               Out.val # from_read(PartsOfType("text/html")[i].body.text, WrapWidth)

\* C3 witness: a text/html part at the top, a text/plain part nested behind it, and
\* the plain content returned
C3_Witness ==
    /\ BodyServed
    /\ raw = RawOf(Multipart(<<HtmlHo, Multipart(<<PlainYo>>)>>))
    /\ Out = Ok(<<"yo">>)

\* the part fetch_body selects: the first text/plain part, else the first text/html part
SelectedPart ==
    IF PartsOfType("text/plain") # <<>> THEN <<Head(PartsOfType("text/plain"))>>
    ELSE IF PartsOfType("text/html") # <<>> THEN <<Head(PartsOfType("text/html"))>>
    ELSE <<>>

\* C6: a message that cannot be parsed, or whose selected part cannot be decoded,
\* makes fetch_body return the raw bytes as lossy UTF-8, never an error
C6_ParseFailureFallsBackToRaw ==
    (BodyServed /\ (~raw.parsed.ok
                    \/ (SelectedPart # <<>> /\ ~SelectedPart[1].body.decodes))) =>
        Out = Ok(Utf8Lossy(raw.bytes))

\* the columns of the longest line of a rendering
RECURSIVE LongestLine(_, _, _)
LongestLine(tokens, col, best) ==
    IF tokens = <<>> THEN IF col > best THEN col ELSE best
    ELSE IF Head(tokens) = "\n"
         THEN LongestLine(Tail(tokens), 0, IF col > best THEN col ELSE best)
         ELSE LongestLine(Tail(tokens),
                          IF col = 0 THEN Len(Head(tokens)) ELSE col + 1 + Len(Head(tokens)),
                          best)

IsNewline(t) == t = "\n"
NotNewline(t) == ~IsNewline(t)

\* C10: with no text/plain part and a text/html part whose content decodes,
\* fetch_body returns the 80-column rendering of the first text/html part in
\* pre-order: its words in order, no tag, no line over 80 columns; not the raw
\* bytes and not the html itself
C10_HtmlIsRendered ==
    (BodyServed /\ PartsOfType("text/plain") = <<>> /\ PartsOfType("text/html") # <<>>
        /\ Head(PartsOfType("text/html")).body.decodes) =>
        LET html == Head(PartsOfType("text/html")).body.text
        IN  /\ Out.ok
            /\ SelectSeq(Out.val, NotNewline) = SelectSeq(html, IsWord)
            /\ \A i \in DOMAIN Out.val : ~IsTag(Out.val[i])
            /\ LongestLine(Out.val, 0, 0) <= WrapWidth
            /\ Out.val # html
            /\ Out.val # Utf8Lossy(raw.bytes)

\* C10 witness: a message with an image part and a text/html part and no
\* text/plain part, shown as the text of its HTML
C10_Witness ==
    /\ BodyServed
    /\ raw = RawOf(Multipart(<<Image, HtmlHo>>))
    /\ Out = Ok(<<"ho", "\n">>)

\* C11: a message that parses and whose tree has no text/plain and no text/html
\* part at any depth is returned whole, headers and body, as lossy UTF-8: a
\* success, not empty, every invalid byte replaced by U+FFFD
C11_NoTextPartFallsBackToRaw ==
    (BodyServed /\ raw.parsed.ok
        /\ PartsOfType("text/plain") = <<>> /\ PartsOfType("text/html") = <<>>) =>
        /\ Out.ok
        /\ Out.val # <<>>
        /\ Len(Out.val) = Len(raw.bytes)
        /\ \A i \in DOMAIN raw.bytes :
               Out.val[i] = IF raw.bytes[i] = "0xFF" THEN "U+FFFD" ELSE raw.bytes[i]
        /\ SubSeq(Out.val, 1, 2) = <<"Content-Type:", raw.parsed.val.ctype>>

\* C11 witness: a multipart message holding only an image, image bytes included in
\* what is returned
C11_Witness ==
    /\ BodyServed
    /\ raw = RawOf(Multipart(<<Multipart(<<Image>>)>>))
    /\ Out = Ok(<<"Content-Type:", "multipart/mixed", "Content-Type:", "multipart/mixed",
                  "Content-Type:", "image/png", "png", "U+FFFD">>)

=============================================================================
